---- MODULE Spec2Model ----
(***************************************************************************)
(* A model of the audio core of ha-live-voice (frontend composables):      *)
(*   - AudioStreamer        (gapless scheduler of PCM16 chunks)            *)
(*   - useAudioPlayback     (playback queue manager with retry/health)     *)
(*   - useVoiceActivityDetection / VolumeProcessor (debounced VAD)         *)
(*   - processPCMChunk      (chunk deduplicator in the WebSocket handler)  *)
(* Each component has its own specification over its own variables; the    *)
(* variables of the other components stay as constructed.                  *)
(***************************************************************************)
EXTENDS Integers, Sequences, FiniteSets, TLC

Max(a, b) == IF a >= b THEN a ELSE b
Min(a, b) == IF a <= b THEN a ELSE b

(***************************************************************************)
(* AudioStreamer (useWebSocketAudio.ts 1501-1718)                          *)
(*                                                                         *)
(* Time is context.currentTime counted in sample periods (1/sampleRate s), *)
(* so that a block of n samples lasts exactly n time units.  The event     *)
(* loop looks at the clock every TickStep units; a timer or an 'ended'     *)
(* event runs at or after its due time, never before.                      *)
(***************************************************************************)
VARIABLES
  now,        \* context.currentTime
  streamer,   \* the AudioStreamer object: its fields, the source nodes it
              \* created, its pending timers
  stream,     \* number of the stream the next addPCM16 belongs to
  streamClosed, \* complete() or stop() was called on stream `stream`
  completedStreams, \* streams on which complete() was called
  completeLog \* one record per onComplete() invocation

VARIABLES
  pb          \* the composable: audioQueue, state, currentSource,
              \* audioContext, the live source nodes, the playAudioBuffer
              \* calls awaiting decodeAudioData, pending processQueue
              \* timers, and the history the properties read

VARIABLES
  vadNow,     \* Date.now() in milliseconds, as the detectors see it
  impl,       \* which detector the application has started:
              \* useVoiceActivityDetection ("interval") or the
              \* VolumeProcessor worklet ("worklet"); "none" before
  vad,        \* useVoiceActivityDetection: config, isListening, isSpeaking,
              \* its three timers
  worklet,    \* the VolumeProcessor: options, isSpeaking, voiceStart,
              \* silenceStart, and whether its node is connected
  obs         \* what was observed: the current run of samples above the
              \* threshold, the current run at or below it, and the
              \* onVoiceStart / onVoiceEnd events emitted during them

VARIABLES
  ws          \* useWebSocketAudio's stream handler: the connection, the
              \* stream metadata, the installed AudioStreamer, the
              \* initializations awaiting the shared AudioContext, the
              \* processedChunks set, and the logs the properties read

VARIABLES
  cap,        \* useAudioCapture: isRecording, isConnecting, the resources it
              \* holds, and what a startRecording call in progress awaits
  mgr,        \* a caller of useSharedAudioContext.ensureAudioContextReady:
              \* the outcome of resume() and what the caller got back
  conv        \* useContinuousConversation: the microphone mute and a
              \* handleVoiceStart in progress

streamerVars == <<now, streamer, stream, streamClosed, completedStreams, completeLog>>
playbackVars == <<pb>>
vadVars == <<vadNow, impl, vad, worklet, obs>>
handlerVars == <<ws>>
sessionVars == <<cap, mgr, conv>>

vars == <<streamerVars, playbackVars, vadVars, handlerVars, sessionVars>>

\* What the actions of one component leave alone: the other components.
notStreamer == <<playbackVars, vadVars, handlerVars, sessionVars>>
notPlayback == <<streamerVars, vadVars, handlerVars, sessionVars>>
notVAD == <<streamerVars, playbackVars, handlerVars, sessionVars>>
notHandler == <<streamerVars, playbackVars, vadVars, sessionVars>>
notCapture == <<streamerVars, playbackVars, vadVars, handlerVars, mgr, conv>>
notManager == <<streamerVars, playbackVars, vadVars, cap, conv>>

sampleRate == 24000
bufferSize == 7680

\* Bounds of the exploration.
TickStep == 1200
MaxTime == 12000
MaxChunks == 2
MaxStops == 1
\* ... and where every chunk is to be followed until it is scheduled: chunks
\* are added up to LastAddTime.
LastAddTime == 3600
MaxResumes == 1

\* Milliseconds as sample periods.
Ms(x) == (x * sampleRate) \div 1000

initialBufferTime == Ms(100)
SCHEDULE_AHEAD_TIME == Ms(200)
CheckIntervalMs == Ms(100)
NextCheckMargin == Ms(50)

\* Byte lengths of the PCM16 chunks handed to addPCM16: 30 ms of audio, the
\* same with one byte more, and the 16000-byte chunk (8000 samples) that is
\* cut into two blocks.
ChunkBytes == {1440, 1441, 16000}

\* _processPCM16Chunk: a chunk of `bytes` bytes becomes bytes/2 samples
\* (new Float32Array(length / 2) drops the half).
ProcessPCM16Chunk(bytes) == bytes \div 2

\* _processPCM16Chunk without its call of onError.
DecodeErrorsSwallowed(bytes) == 0

\* The onError calls of _processPCM16Chunk.  The loop runs while
\* i < length / 2, and getInt16(i * 2) throws a RangeError when the two bytes
\* at i * 2 reach past the end of the buffer: only the last round can.
DecodeErrors(bytes) ==
  LET rounds == (bytes + 1) \div 2 IN
  IF rounds > 0 /\ 2 * (rounds - 1) + 2 > bytes THEN 1 ELSE 0

\* The slicing loop of addPCM16: block lengths cut from n decoded samples.
RECURSIVE SliceBlocks(_)
SliceBlocks(n) ==
  IF n >= bufferSize THEN <<bufferSize>> \o SliceBlocks(n - bufferSize)
  ELSE IF n > 0 THEN <<n>>
  ELSE <<>>

Tagged(lens, s) == [i \in 1..Len(lens) |-> [length |-> lens[i], stream |-> s]]

\* Bounds of the exploration of chunks followed sample by sample.
MaxSampleChunks == 1
MaxSeed == 6

\* Byte lengths of these chunks: a few samples, around one block, the chunk
\* of 8000 samples, and just over two blocks.
SampleChunkBytes ==
  {0, 1, 2, 3, 4, 5, 6, 7,
   15358, 15359, 15360, 15361, 15362, 16000, 16001, 30722}

\* A chunk of n bytes whose samples are all different.
PcmChunk(n, seed) ==
  [i \in 1..n |->
     IF i % 2 = 1 THEN (((i + 1) \div 2) * 7 + seed) % 256
     ELSE (((i \div 2) \div 256) + seed * 37) % 256]

\* dataView.getInt16(offset, true): two bytes, little-endian, as a signed
\* 16-bit integer.
GetInt16(lo, hi) ==
  LET u == lo + 256 * hi IN IF u >= 32768 THEN u - 65536 ELSE u

\* _processPCM16Chunk on the bytes of a chunk: the Float32Array has
\* floor(length / 2) elements, each int16 / 32768 (kept as the int16).
DecodePCM16(chunk) ==
  [i \in 1..ProcessPCM16Chunk(Len(chunk)) |->
     GetInt16(chunk[2 * i - 1], chunk[2 * i])]

\* The slicing loop of addPCM16 without the buffer that remains.
RECURSIVE SliceBuffersFullOnly(_)
SliceBuffersFullOnly(processingBuffer) ==
  IF Len(processingBuffer) >= bufferSize
  THEN <<SubSeq(processingBuffer, 1, bufferSize)>>
         \o SliceBuffersFullOnly(SubSeq(processingBuffer, bufferSize + 1,
                                        Len(processingBuffer)))
  ELSE <<>>

\* The slicing loop of addPCM16 on the samples: the buffers pushed.
RECURSIVE SliceBuffers(_)
SliceBuffers(processingBuffer) ==
  IF Len(processingBuffer) >= bufferSize
  THEN <<SubSeq(processingBuffer, 1, bufferSize)>>
         \o SliceBuffers(SubSeq(processingBuffer, bufferSize + 1,
                                Len(processingBuffer)))
  ELSE IF Len(processingBuffer) > 0 THEN <<processingBuffer>>
  ELSE <<>>

\* startTime of a block: never in the past.
StartTimeNoMax(scheduledTime, currentTime) == scheduledTime
StartTime(scheduledTime, currentTime) == Max(scheduledTime, currentTime)

\* The while loop of scheduleNextBuffer.
RECURSIVE ScheduleLoop(_, _)
ScheduleLoop(s, t) ==
  IF Len(s.audioQueue) > 0 /\ s.scheduledTime < t + SCHEDULE_AHEAD_TIME
  THEN LET audioData == Head(s.audioQueue)
           rest == Tail(s.audioQueue)
           id == Len(s.sources) + 1
           startTime == StartTime(s.scheduledTime, t)
           src == [start |-> startTime, duration |-> audioData.length,
                   stream |-> audioData.stream, at |-> t]
           last == Len(rest) = 0
       IN ScheduleLoop(
            [s EXCEPT !.audioQueue = rest,
                      !.sources = Append(@, src),
                      !.endOfQueueAudioSource = IF last THEN id ELSE @,
                      !.endedFired = IF last THEN FALSE ELSE @,
                      !.scheduledTime = startTime + audioData.length], t)
  ELSE s

\* scheduleNextBuffer that starts no polling when the queue is empty.
ScheduleNextBufferNoPolling(s0, t) ==
  LET s == ScheduleLoop(s0, t) IN
  IF Len(s.audioQueue) = 0
  THEN IF s.isStreamComplete
       THEN [s EXCEPT !.isPlaying = FALSE, !.checkInterval = FALSE]
       ELSE s
  ELSE [s EXCEPT !.timeouts = @ \cup
            {t + Max(0, (s.scheduledTime - t) - NextCheckMargin)}]

\* scheduleNextBuffer: the loop, then polling / next check / end of playback.
ScheduleNextBuffer(s0, t) ==
  LET s == ScheduleLoop(s0, t) IN
  IF Len(s.audioQueue) = 0
  THEN IF s.isStreamComplete
       THEN [s EXCEPT !.isPlaying = FALSE, !.checkInterval = FALSE]
       ELSE IF ~s.checkInterval
            THEN [s EXCEPT !.checkInterval = TRUE, !.intervalDue = t + CheckIntervalMs]
            ELSE s
  ELSE [s EXCEPT !.timeouts = @ \cup
            {t + Max(0, (s.scheduledTime - t) - NextCheckMargin)}]

StreamerInit ==
  [audioQueue |-> <<>>, isPlaying |-> FALSE, isStreamComplete |-> FALSE,
   checkInterval |-> FALSE, intervalDue |-> 0, scheduledTime |-> 0,
   endOfQueueAudioSource |-> 0, endedFired |-> FALSE,
   sources |-> <<>>, timeouts |-> {}, chunks |-> 0, stops |-> 0,
   stopped |-> FALSE,     \* stop() was called and addPCM16 not since
   errors |-> 0,          \* onError calls so far
   lastBytes |-> 0,       \* chunk.length of the last addPCM16
   chunk |-> <<>>,        \* the last chunk followed sample by sample, and
   pushed |-> <<>>,       \* the buffers addPCM16 pushed for it
   gain |-> 100,          \* gainNode.gain as last set, in hundredths
   lastVolume |-> -1,     \* the argument of the last setVolume (-1: none)
   resumes |-> 0]         \* resume() calls so far

\* A source node is still playing (or waiting to play) at time t.
StillPlaying(s, t) == \E i \in 1..Len(s.sources) :
                         s.sources[i].start + s.sources[i].duration > t

OnComplete(s, t, strm) ==
  [stream |-> strm,
   completeCalled |-> strm \in completedStreams,
   queued |-> Len(s.audioQueue),
   playing |-> StillPlaying(s, t)]

\* addPCM16 on a chunk of `bytes` bytes belonging to stream strm, at time t.
addPCM16(s, bytes, strm, t) ==
  LET blocks == Tagged(SliceBlocks(ProcessPCM16Chunk(bytes)), strm)
      s1 == [s EXCEPT !.isStreamComplete = FALSE,
                      !.audioQueue = @ \o blocks,
                      !.chunks = @ + 1,
                      !.stopped = FALSE,
                      !.errors = @ + DecodeErrors(bytes),
                      !.lastBytes = bytes]
  IN IF ~s1.isPlaying
     THEN ScheduleNextBuffer(
            [s1 EXCEPT !.isPlaying = TRUE,
                       !.scheduledTime = t + initialBufferTime], t)
     ELSE s1

AddPCM16(bytes) ==
  /\ streamer.chunks < MaxChunks
  /\ LET strm == IF streamClosed THEN stream + 1 ELSE stream
     IN /\ stream' = strm
        /\ streamClosed' = FALSE
        /\ streamer' = addPCM16(streamer, bytes, strm, now)
  /\ UNCHANGED <<now, completedStreams, completeLog, notStreamer>>

\* addPCM16 on a chunk given by its bytes: as above, and the samples of the
\* buffers it pushes are followed.
AddPCM16Samples(chunk) ==
  /\ streamer.chunks < MaxSampleChunks
  /\ LET strm == IF streamClosed THEN stream + 1 ELSE stream
     IN /\ stream' = strm
        /\ streamClosed' = FALSE
        /\ streamer' = [addPCM16(streamer, Len(chunk), strm, now)
                          EXCEPT !.chunk = chunk,
                                 !.pushed = SliceBuffers(DecodePCM16(chunk))]
  /\ UNCHANGED <<now, completedStreams, completeLog, notStreamer>>

\* complete(): the caller marks the end of the current stream, once.
Complete ==
  /\ streamer.chunks > 0
  /\ ~streamClosed
  /\ streamer' = [streamer EXCEPT !.isStreamComplete = TRUE]
  /\ completedStreams' = completedStreams \cup {stream}
  /\ streamClosed' = TRUE
  /\ completeLog' = IF Len(streamer.audioQueue) = 0
                    THEN Append(completeLog,
                           [OnComplete(streamer, now, stream)
                              EXCEPT !.completeCalled = TRUE])
                    ELSE completeLog
  /\ UNCHANGED <<now, stream, notStreamer>>

\* resume() on a running context (nothing is awaited): the stream is open
\* again, the cursor is set the initial buffer time ahead of the clock and
\* the gain to 1.
Resume ==
  /\ streamer.resumes < MaxResumes
  /\ streamer' = [streamer EXCEPT !.isStreamComplete = FALSE,
                                  !.scheduledTime = now + initialBufferTime,
                                  !.gain = 100,
                                  !.resumes = @ + 1]
  /\ UNCHANGED <<now, stream, streamClosed, completedStreams, completeLog, notStreamer>>

\* setVolume's argument, in hundredths.
StreamerVolumes == {-50, 40, 250}

\* setVolume without the clamp.
ClampVolumeNone(volume) == volume

\* clampedVolume = Math.max(0, Math.min(1, volume)), in hundredths.
ClampVolume(volume) == Max(0, Min(100, volume))

\* setVolume(volume): gainNode.gain.setValueAtTime(clampedVolume, currentTime).
SetVolume(volume) ==
  /\ streamer' = [streamer EXCEPT !.gain = ClampVolume(volume),
                                  !.lastVolume = volume]
  /\ UNCHANGED <<now, stream, streamClosed, completedStreams, completeLog, notStreamer>>

\* stop(); the ramp of the gain to 0 and the gain node it rebuilds 200 ms
\* later are not part of this state.
Stop ==
  /\ streamer.chunks > 0
  /\ streamer.stops < MaxStops
  /\ streamer' = [streamer EXCEPT !.isPlaying = FALSE,
                                  !.isStreamComplete = TRUE,
                                  !.audioQueue = <<>>,
                                  !.scheduledTime = now,
                                  !.checkInterval = FALSE,
                                  !.stops = @ + 1,
                                  !.stopped = TRUE]
  /\ streamClosed' = TRUE
  /\ UNCHANGED <<now, stream, completedStreams, completeLog, notStreamer>>

\* A pending setTimeout(() => this.scheduleNextBuffer()) runs.
TimeoutFires ==
  \E due \in streamer.timeouts :
    /\ now >= due
    /\ streamer' = ScheduleNextBuffer(
                     [streamer EXCEPT !.timeouts = @ \ {due}], now)
    /\ UNCHANGED <<now, stream, streamClosed, completedStreams, completeLog, notStreamer>>

\* The checkInterval callback runs.
IntervalFires ==
  /\ streamer.checkInterval
  /\ now >= streamer.intervalDue
  /\ LET s1 == [streamer EXCEPT !.intervalDue = now + CheckIntervalMs]
     IN streamer' = IF Len(s1.audioQueue) > 0
                    THEN ScheduleNextBuffer(s1, now)
                    ELSE s1
  /\ UNCHANGED <<now, stream, streamClosed, completedStreams, completeLog, notStreamer>>

\* The 'ended' event of the source that carries the onended handler.
SourceEnded ==
  LET id == streamer.endOfQueueAudioSource IN
  /\ id # 0
  /\ ~streamer.endedFired
  /\ now >= streamer.sources[id].start + streamer.sources[id].duration
  /\ IF Len(streamer.audioQueue) = 0
     THEN /\ streamer' = [streamer EXCEPT !.endOfQueueAudioSource = 0,
                                          !.endedFired = FALSE]
          /\ completeLog' = IF streamer.isStreamComplete
                            THEN Append(completeLog,
                                   OnComplete(streamer, now,
                                              streamer.sources[id].stream))
                            ELSE completeLog
     ELSE /\ streamer' = [streamer EXCEPT !.endedFired = TRUE]
          /\ UNCHANGED completeLog
  /\ UNCHANGED <<now, stream, streamClosed, completedStreams, notStreamer>>

TimerDue(s, t) ==
  \/ \E due \in s.timeouts : t >= due
  \/ s.checkInterval /\ t >= s.intervalDue
  \/ /\ s.endOfQueueAudioSource # 0
     /\ ~s.endedFired
     /\ t >= s.sources[s.endOfQueueAudioSource].start
               + s.sources[s.endOfQueueAudioSource].duration

Tick ==
  /\ now + TickStep <= MaxTime
  /\ ~TimerDue(streamer, now)
  /\ now' = now + TickStep
  /\ UNCHANGED <<streamer, stream, streamClosed, completedStreams, completeLog, notStreamer>>

(***************************************************************************)
(* useAudioPlayback: the playback queue manager                            *)
(* (useWebSocketAudio.ts 873-1495)                                         *)
(*                                                                         *)
(* One action is one task of the event loop: a public call or a callback   *)
(* (timer, decode completion, 'ended' event) together with the promise     *)
(* continuations it makes runnable.  setTimeout(processQueue, d) callbacks *)
(* are pending timers that may run in any order.  A source node is named   *)
(* by the id of the queue item it plays.                                   *)
(***************************************************************************)
\* Bounds of the exploration.
MaxItems == 3
MaxCalls == 2
MaxRejected == 2

MaxErrors == 5
MaxRetries == 2
HealthyBelow == 3

\* What a queue item is made of: decodable or corrupt bytes, and whether it
\* is marked as a streaming chunk.
ItemKinds == {<<"ok", FALSE>>, <<"ok", TRUE>>, <<"corrupt", FALSE>>}
ContextStates == {"suspended", "running"}
\* `new AudioContext()` may throw; the class playAudioBuffer gives the thrown
\* error depends on the words of the browser's message.
ContextFailures == {"CONTEXT_ERROR", "PLAYBACK_ERROR"}
NewContext == ContextStates \cup ContextFailures

PbInit ==
  [audioQueue |-> <<>>,
   state |-> [isPlaying |-> FALSE, currentItem |-> 0, queueLength |-> 0,
              lastError |-> "none", errorCount |-> 0, isRecovering |-> FALSE,
              volume |-> 100, isMuted |-> FALSE],   \* volume in hundredths
   currentSource |-> 0,
   audioContext |-> "none",
   rejected |-> 0,          \* enqueueAudio calls that threw on their input
   playing |-> {},          \* sources started and still sounding
   stopped |-> {},          \* sources stopped, 'ended' event not yet delivered
   decoding |-> {},         \* items whose decodeAudioData is in flight
   orphaned |-> {},         \* ... of these, the ids whose context was closed
   timers |-> 0,            \* pending setTimeout(() => processQueue())
   closing |-> FALSE,       \* recoverFromErrors awaits audioContext.close()
   enqueued |-> 0,          \* items enqueued so far (the next id)
   calls |-> 0,             \* stop/pause/resume/clear/recover calls so far
   lastAttempt |-> 0,       \* id most recently dequeued by processQueue
   lastStarted |-> 0,       \* id most recently passed to source.start(0)
   cleared |-> FALSE,       \* clearQueue was called
   paused |-> FALSE,        \* stopPlayback/pauseQueue was called, and neither
                            \* enqueueAudio, resumeQueue nor a recovery since
   consecFail |-> 0,        \* playback failures since the last success
   halted |-> FALSE]        \* 5 consecutive failures, no recovery since

isHealthy(w) == w.state.errorCount < HealthyBelow /\ ~w.state.isRecovering
hasItemsInQueue(w) == Len(w.audioQueue) > 0

logError(w, type) ==
  [w EXCEPT !.state.lastError = type, !.state.errorCount = @ + 1]

clearErrors(w) ==
  [w EXCEPT !.state.lastError = "none", !.state.errorCount = 0,
            !.state.isRecovering = FALSE]

shouldSkipItem(error) == error = "DECODE_ERROR"
shouldRetryItem(error) == error \in {"CONTEXT_ERROR", "PLAYBACK_ERROR"}

\* initAudioContext: creates the context on first use; a new context starts
\* suspended or running (cs) depending on user activation.  When the
\* constructor throws, the error is logged and thrown on: no context exists
\* afterwards.
initAudioContext(w, cs) ==
  IF w.audioContext # "none" THEN w
  ELSE IF cs \in ContextFailures THEN logError(w, "CONTEXT_ERROR")
  ELSE [w EXCEPT !.audioContext = cs]

\* currentSource.stop(): the node stops sounding, its 'ended' event follows.
StopSource(w) ==
  IF w.currentSource \in w.playing
  THEN [w EXCEPT !.playing = @ \ {w.currentSource},
                 !.stopped = @ \cup {w.currentSource}]
  ELSE w

\* The catch block of playAudioBuffer.
PlayFailed(w, errorType) ==
  LET w1 == logError(w, errorType) IN
  [w1 EXCEPT !.state.isPlaying = FALSE, !.state.currentItem = 0,
             !.currentSource = 0,
             !.consecFail = Min(MaxErrors, @ + 1),
             !.halted = @ \/ (w.consecFail + 1 >= MaxErrors)]

\* The catch block of processQueue: skip, retry at the front, or give up.
SkipOrGiveUp(w) ==
  [w EXCEPT !.state.isPlaying = FALSE, !.state.currentItem = 0,
            !.timers = @ + 1]

RetryItem(w, nextItem) ==
  LET q == <<[nextItem EXCEPT !.retryCount = @ + 1]>> \o w.audioQueue IN
  [w EXCEPT !.audioQueue = q, !.state.queueLength = Len(q),
            !.state.isPlaying = FALSE, !.state.currentItem = 0,
            !.timers = @ + 1]

\* The catch block of processQueue retrying whatever the error.
ProcessQueueCatchRetry(w, nextItem) == RetryItem(w, nextItem)

ProcessQueueCatch(w, nextItem) ==
  LET audioError == w.state.lastError IN
  IF shouldSkipItem(audioError) THEN SkipOrGiveUp(w)
  ELSE IF shouldRetryItem(audioError) /\ nextItem.retryCount < MaxRetries
       THEN IF nextItem.streaming THEN SkipOrGiveUp(w)
            ELSE RetryItem(w, nextItem)
       ELSE SkipOrGiveUp(w)

\* processQueue up to its first suspension: the guards, dequeueAudio, and
\* playAudioBuffer up to `await context.decodeAudioData`, or its failure on a
\* suspended context together with both catch blocks.
ProcessQueue(w, cs) ==
  IF w.state.isPlaying \/ Len(w.audioQueue) = 0 THEN w
  ELSE IF w.state.errorCount >= MaxErrors
       THEN [w EXCEPT !.state.isRecovering = TRUE]
  ELSE
    LET nextItem == Head(w.audioQueue)
        w1 == [w EXCEPT !.audioQueue = Tail(@),
                        !.state.queueLength = Len(w.audioQueue) - 1,
                        !.state.currentItem = nextItem.id,
                        !.lastAttempt = nextItem.id]
        w2 == initAudioContext(w1, cs)
    IN IF w2.audioContext = "none"
       THEN ProcessQueueCatch(PlayFailed(w2, cs), nextItem)
       ELSE IF w2.audioContext = "suspended"
       THEN ProcessQueueCatch(PlayFailed(w2, "CONTEXT_ERROR"), nextItem)
       ELSE LET w3 == IF w2.state.isPlaying \/ w2.currentSource # 0
                      THEN [StopSource(w2) EXCEPT !.currentSource = 0,
                                                  !.state.isPlaying = FALSE]
                      ELSE w2
            IN [w3 EXCEPT !.state.isPlaying = TRUE,
                          !.decoding = @ \cup {nextItem}]

\* enqueueAudio with valid data; cs is what constructing a context gives.
EnqueueAudio(data, streaming, cs) ==
  /\ pb.enqueued < MaxItems
  /\ LET item == [id |-> pb.enqueued + 1, data |-> data,
                    streaming |-> streaming, retryCount |-> 0]
           w1 == [pb EXCEPT !.audioQueue = Append(@, item),
                            !.state.queueLength = Len(pb.audioQueue) + 1,
                            !.enqueued = @ + 1,
                            !.paused = FALSE]
       IN pb' = IF ~w1.state.isPlaying /\ ~w1.state.isRecovering
                THEN ProcessQueue(w1, cs)
                ELSE w1
  /\ UNCHANGED notPlayback

\* enqueueAudio with null or zero-length data: the validation throws inside
\* the try block, and the catch block logs a QUEUE_ERROR and rethrows.
EnqueueInvalid ==
  /\ pb.rejected < MaxRejected
  /\ pb' = [logError(pb, "QUEUE_ERROR") EXCEPT !.rejected = @ + 1]
  /\ UNCHANGED notPlayback

\* A pending setTimeout(() => processQueue()) runs.
ProcessQueueTimer(cs) ==
  /\ pb.timers > 0
  /\ pb' = ProcessQueue([pb EXCEPT !.timers = @ - 1], cs)
  /\ UNCHANGED notPlayback

\* The browser lets the suspended context run (user gesture, resume()).
ContextResumed ==
  /\ pb.audioContext = "suspended"
  /\ pb' = [pb EXCEPT !.audioContext = "running"]
  /\ UNCHANGED notPlayback

\* decodeAudioData resolved and source.start(0) succeeded: the rest of
\* playAudioBuffer and the success path of processQueue.  A source started on
\* a context that was closed meanwhile makes no sound and never ends.
DecodeSucceeded(item) ==
  /\ item \in pb.decoding
  /\ item.data = "ok"
  /\ LET w1 == StopSource([pb EXCEPT !.decoding = @ \ {item}])
     IN pb' = [w1 EXCEPT !.playing = IF item.id \in pb.orphaned THEN @
                                         ELSE @ \cup {item.id},
                         !.orphaned = @ \ {item.id},
                         !.currentSource = item.id,
                         !.lastStarted = item.id,
                         !.consecFail = 0,
                         !.state.errorCount = IF @ > 0 THEN Max(0, @ - 1) ELSE @]
  /\ UNCHANGED notPlayback

\* decodeAudioData rejected (corrupt data), or creating/starting the source
\* threw after a successful decode.
DecodeFailed(item) ==
  /\ item \in pb.decoding
  /\ LET w0 == [pb EXCEPT !.decoding = @ \ {item}, !.orphaned = @ \ {item.id}]
     IN \/ /\ item.data = "corrupt"
           /\ pb' = ProcessQueueCatch(PlayFailed(w0, "DECODE_ERROR"), item)
        \/ /\ item.data = "ok"
           /\ pb' = ProcessQueueCatch(
                      PlayFailed(StopSource(w0), "PLAYBACK_ERROR"), item)
  /\ UNCHANGED notPlayback

\* The 'ended' event of a source: it played to its end, or it was stopped.
PlaybackEnded(id) ==
  /\ id \in pb.playing \cup pb.stopped
  /\ pb' = [pb EXCEPT !.playing = @ \ {id},
                      !.stopped = @ \ {id},
                      !.state.isPlaying = FALSE,
                      !.state.currentItem = 0,
                      !.currentSource = 0,
                      !.timers = @ + 1]
  /\ UNCHANGED notPlayback

stopPlayback(w) ==
  [StopSource(w) EXCEPT !.currentSource = 0, !.state.isPlaying = FALSE,
                        !.state.currentItem = 0]

\* stopPlayback() / pauseQueue().
StopPlayback ==
  /\ pb.calls < MaxCalls
  /\ pb' = [stopPlayback(pb) EXCEPT !.calls = @ + 1, !.paused = TRUE]
  /\ UNCHANGED notPlayback

ResumeQueue(cs) ==
  /\ pb.calls < MaxCalls
  /\ ~pb.state.isPlaying /\ hasItemsInQueue(pb) /\ ~pb.state.isRecovering
  /\ pb' = ProcessQueue([pb EXCEPT !.calls = @ + 1, !.paused = FALSE], cs)
  /\ UNCHANGED notPlayback

ClearQueue ==
  /\ pb.calls < MaxCalls
  /\ pb' = [clearErrors([pb EXCEPT !.audioQueue = <<>>, !.state.queueLength = 0])
              EXCEPT !.calls = @ + 1,
                     !.cleared = TRUE, !.consecFail = 0, !.halted = FALSE]
  /\ UNCHANGED notPlayback

\* The rest of recoverFromErrors once no context is left: clearErrors,
\* initAudioContext and the processQueue timer; when initAudioContext throws,
\* the catch block logs a second error.  isRecovering is false in the end.
RecoverRest(w, cs) ==
  LET w1 == initAudioContext(clearErrors(w), cs)
      w2 == IF w1.audioContext = "none" THEN logError(w1, "CONTEXT_ERROR")
            ELSE [w1 EXCEPT !.timers = IF hasItemsInQueue(w1) THEN @ + 1 ELSE @]
  IN [w2 EXCEPT !.state.isRecovering = FALSE,
                !.consecFail = 0, !.halted = FALSE]

\* recoverFromErrors up to `await audioContext.value.close()`.
RecoverStart ==
  /\ pb.calls < MaxCalls
  /\ ~pb.closing
  /\ pb.audioContext # "none"
  /\ pb' = [stopPlayback([pb EXCEPT !.state.isRecovering = TRUE])
              EXCEPT !.calls = @ + 1, !.paused = FALSE,
                     !.closing = TRUE, !.consecFail = 0, !.halted = FALSE]
  /\ UNCHANGED notPlayback

\* close() resolved: the rest of recoverFromErrors.  The sources of the
\* closed context fall silent; decodes in flight go on without a context.
RecoverDone(cs) ==
  /\ pb.closing
  /\ pb' = RecoverRest([pb EXCEPT !.audioContext = "none", !.closing = FALSE,
                                    !.playing = {},
                                    !.orphaned = {d.id : d \in pb.decoding}], cs)
  /\ UNCHANGED notPlayback

\* recoverFromErrors when no context exists yet: nothing is awaited, the
\* whole function runs in one task.
RecoverNoContext(cs) ==
  /\ pb.calls < MaxCalls
  /\ ~pb.closing
  /\ pb.audioContext = "none"
  /\ pb' = RecoverRest([stopPlayback(pb) EXCEPT !.calls = @ + 1,
                                                  !.paused = FALSE], cs)
  /\ UNCHANGED notPlayback

\* The playback queue manager where `new AudioContext()` succeeds.
PlaybackNext ==
  \/ \E kind \in ItemKinds, cs \in ContextStates :
       EnqueueAudio(kind[1], kind[2], cs)
  \/ \E cs \in ContextStates : ProcessQueueTimer(cs)
  \/ ContextResumed
  \/ \E item \in pb.decoding : DecodeSucceeded(item)
  \/ \E item \in pb.decoding : DecodeFailed(item)
  \/ \E id \in 1..MaxItems + 1 : PlaybackEnded(id)
  \/ StopPlayback
  \/ \E cs \in ContextStates : ResumeQueue(cs)
  \/ ClearQueue
  \/ RecoverStart
  \/ \E cs \in ContextStates : RecoverDone(cs)
  \/ \E cs \in ContextStates : RecoverNoContext(cs)

\* The playback queue manager where `new AudioContext()` may throw and
\* enqueueAudio may be handed empty data; recoverFromErrors is called only
\* while there is no context to close.
HealthNext ==
  \/ \E kind \in ItemKinds, cs \in NewContext :
       EnqueueAudio(kind[1], kind[2], cs)
  \/ EnqueueInvalid
  \/ \E cs \in NewContext : ProcessQueueTimer(cs)
  \/ ContextResumed
  \/ \E item \in pb.decoding : DecodeSucceeded(item)
  \/ \E item \in pb.decoding : DecodeFailed(item)
  \/ \E id \in 1..MaxItems + 1 : PlaybackEnded(id)
  \/ \E cs \in NewContext : RecoverNoContext(cs)

\* removeFromQueue with the splice but without the queueLength update.
removeFromQueueStale(w, itemId) ==
  IF \E i \in 1..Len(w.audioQueue) : w.audioQueue[i].id = itemId
  THEN [w EXCEPT !.audioQueue = SelectSeq(@, LAMBDA it : it.id # itemId)]
  ELSE w

\* removeFromQueue: splice the item with this id out of the queue (ids are
\* unique, so dropping every item of that id drops the one findIndex finds).
removeFromQueue(w, itemId) ==
  IF \E i \in 1..Len(w.audioQueue) : w.audioQueue[i].id = itemId
  THEN LET q == SelectSeq(w.audioQueue, LAMBDA it : it.id # itemId) IN
       [w EXCEPT !.audioQueue = q, !.state.queueLength = Len(q)]
  ELSE w

RemoveFromQueue(itemId) ==
  /\ pb.calls < MaxCalls
  /\ pb' = [removeFromQueue(pb, itemId) EXCEPT !.calls = @ + 1]
  /\ UNCHANGED notPlayback

\* cleanup(): stopPlayback, clearQueue, close and drop the context (its
\* sources fall silent, decodes in flight go on without it), clearErrors.
Cleanup ==
  /\ pb.calls < MaxCalls
  /\ ~pb.closing
  /\ LET w1 == stopPlayback(pb)
         w2 == clearErrors([w1 EXCEPT !.audioQueue = <<>>,
                                      !.state.queueLength = 0])
         w3 == IF w2.audioContext # "none"
               THEN [w2 EXCEPT !.audioContext = "none", !.playing = {},
                               !.orphaned = {d.id : d \in w2.decoding}]
               ELSE w2
     IN pb' = [clearErrors(w3) EXCEPT !.calls = @ + 1, !.cleared = TRUE,
                                      !.consecFail = 0, !.halted = FALSE]
  /\ UNCHANGED notPlayback

\* Every operation of the playback queue manager that touches the queue:
\* enqueueAudio, the dequeue and the retry re-queue of processQueue,
\* removeFromQueue, clearQueue and cleanup.
QueueNext ==
  \/ \E kind \in ItemKinds, cs \in NewContext :
       EnqueueAudio(kind[1], kind[2], cs)
  \/ \E cs \in NewContext : ProcessQueueTimer(cs)
  \/ ContextResumed
  \/ \E item \in pb.decoding : DecodeSucceeded(item)
  \/ \E item \in pb.decoding : DecodeFailed(item)
  \/ \E id \in 1..MaxItems + 1 : PlaybackEnded(id)
  \/ \E id \in 1..MaxItems + 1 : RemoveFromQueue(id)
  \/ ClearQueue
  \/ Cleanup

(***************************************************************************)
(* Voice activity detection: useVoiceActivityDetection (part_001), driven  *)
(* by setInterval/setTimeout, and the VolumeProcessor audio worklet        *)
(* (useWebSocketAudio.ts 1819-1888), driven by process() calls.            *)
(*                                                                         *)
(* Volumes and thresholds are in thousandths (0.01 is 10), times in        *)
(* milliseconds.  A callback runs at its due time; callbacks due at the    *)
(* same time run in any order.                                             *)
(***************************************************************************)

\* Bounds of the exploration.
VadTick == 100
MaxVadTime == 3600
MaxUpdates == 1

Volumes == {0, 10, 20}

vadConfig ==
  [volumeThreshold |-> 10, silenceTimeout |-> 1500, voiceTimeout |-> 200,
   analysisInterval |-> 100]

workletConfig ==
  [volumeThreshold |-> 10, silenceTimeout |-> 2500, voiceTimeout |-> 300]

\* processorOptions.x || default
OrDefault(x, default) == IF x = 0 THEN default ELSE x

VadInit ==
  [config |-> vadConfig, isListening |-> FALSE, isSpeaking |-> FALSE,
   analysisTimer |-> 0, silenceTimer |-> 0, voiceTimer |-> 0,
   stage |-> "idle",        \* what a startVAD call in progress awaits
   audioContext |-> FALSE,  \* the local audioContext is set
   stream |-> FALSE,        \* the local stream is set (microphone held)
   stopped |-> FALSE,       \* stopVAD was called, and startVAD not since
   updates |-> 0,           \* updateConfig calls so far
   lastUpdate |-> <<"none", 0>>,  \* the argument of the last one
   events |-> <<>>]         \* the onVoiceStart / onVoiceEnd calls so far

\* The processor built by startWorklet from the composable's config.
NewProcessor(cfg) ==
  [volumeThreshold |-> OrDefault(cfg.volumeThreshold, 10),
   silenceTimeout |-> OrDefault(cfg.silenceTimeout, 2500),
   voiceTimeout |-> OrDefault(cfg.voiceTimeout, 300),
   isSpeaking |-> FALSE, silenceStart |-> 0, voiceStart |-> 0]

WorkletInit ==
  [config |-> workletConfig, isListening |-> FALSE, nextProcess |-> 0,
   processor |-> NewProcessor(workletConfig),
   stage |-> "idle",        \* what a startWorklet call in progress awaits
   stream |-> FALSE,        \* the local stream is set (microphone held)
   stopped |-> FALSE,       \* stopWorklet was called, and startWorklet not since
   updates |-> 0,           \* updateConfig calls so far
   lastUpdate |-> <<"none", 0>>]  \* the argument of the last one

ObsInit ==
  [runStart |-> -1, runStarts |-> 0, startAt |-> -1,
   quietStart |-> -1, quietEnds |-> 0, endAt |-> -1]

\* A sample was taken at time t while the detector was (not) speaking.
ObsSample(o, volume, threshold, speaking, t) ==
  IF volume > threshold
  THEN [o EXCEPT !.runStart = IF @ = -1 /\ ~speaking THEN t ELSE @,
                 !.quietStart = -1, !.quietEnds = 0, !.endAt = -1]
  ELSE [o EXCEPT !.quietStart = IF @ = -1 /\ speaking THEN t ELSE @,
                 !.runStart = -1, !.runStarts = 0, !.startAt = -1]

ObsVoiceStart(o, t) == [o EXCEPT !.runStarts = Min(2, @ + 1), !.startAt = t]
ObsVoiceEnd(o, t) == [o EXCEPT !.quietEnds = Min(2, @ + 1), !.endAt = t]

\* The comparison both detectors classify a sample with.
IsVoice(volume, threshold) == volume > threshold

\* handleSilence without its clearTimeout(voiceTimer).
ClearVoiceTimerKept(v) == v
ClearVoiceTimer(v) == [v EXCEPT !.voiceTimer = 0]

\* handleVoiceActivity without its clearTimeout(silenceTimer).
ClearSilenceTimerKept(v) == v
ClearSilenceTimer(v) == [v EXCEPT !.silenceTimer = 0]

handleVoiceActivity(v, t) ==
  LET v1 == ClearSilenceTimer(v) IN
  IF ~v1.isSpeaking /\ v1.voiceTimer = 0
  THEN [v1 EXCEPT !.voiceTimer = t + v.config.voiceTimeout]
  ELSE v1

handleSilence(v, t) ==
  LET v1 == ClearVoiceTimer(v) IN
  IF v1.isSpeaking /\ v1.silenceTimer = 0
  THEN [v1 EXCEPT !.silenceTimer = t + v.config.silenceTimeout]
  ELSE v1

\* A call of startVAD, up to the first await that does not resolve within
\* the task: on a running shared context the two context awaits resolve at
\* once and getUserMedia is awaited; on a suspended one resume() is awaited.
BeginStartVAD ==
  /\ impl \in {"none", "interval"}
  /\ ~vad.isListening /\ vad.stage = "idle"
  /\ impl' = "interval"
  /\ \E cs \in ContextStates :
       vad' = IF cs = "running"
              THEN [vad EXCEPT !.stage = "device", !.audioContext = TRUE,
                               !.stopped = FALSE]
              ELSE [vad EXCEPT !.stage = "context", !.stopped = FALSE]
  /\ UNCHANGED <<vadNow, worklet, obs, notVAD>>

\* resume() resolved: `audioContext = await getAudioContext()` is assigned and
\* getUserMedia is awaited.
VadContextReady ==
  /\ impl = "interval"
  /\ vad.stage = "context"
  /\ vad' = [vad EXCEPT !.stage = "device", !.audioContext = TRUE]
  /\ UNCHANGED <<vadNow, impl, worklet, obs, notVAD>>

\* An awaited promise of startVAD rejected (resume() or getUserMedia): the
\* catch block rethrows.
StartVADFailed ==
  /\ impl = "interval"
  /\ vad.stage # "idle"
  /\ vad' = [vad EXCEPT !.stage = "idle"]
  /\ UNCHANGED <<vadNow, impl, worklet, obs, notVAD>>

\* getUserMedia resolved: the rest of startVAD.  audioContext.createAnalyser()
\* throws when stopVAD has set audioContext to null meanwhile.
StartVAD ==
  /\ impl = "interval"
  /\ vad.stage = "device"
  /\ vad' = IF vad.audioContext
            THEN [vad EXCEPT !.stage = "idle", !.stream = TRUE,
                             !.isListening = TRUE,
                             !.analysisTimer = vadNow + vad.config.analysisInterval]
            ELSE [vad EXCEPT !.stage = "idle", !.stream = TRUE]
  /\ UNCHANGED <<vadNow, impl, worklet, obs, notVAD>>

\* stopVAD, while listening or while a start is in progress.
StopVAD ==
  /\ impl = "interval"
  /\ vad.isListening \/ vad.stage # "idle"
  /\ vad' = [vad EXCEPT !.analysisTimer = 0, !.silenceTimer = 0, !.voiceTimer = 0,
                        !.audioContext = FALSE, !.stream = FALSE,
                        !.isListening = FALSE, !.isSpeaking = FALSE,
                        !.stopped = TRUE]
  /\ obs' = ObsInit
  /\ UNCHANGED <<vadNow, impl, worklet, notVAD>>

\* The setInterval callback: analyzeVolume on one sample.
AnalyzeVolume(volume) ==
  /\ impl = "interval"
  /\ vad.analysisTimer # 0 /\ vad.analysisTimer <= vadNow
  /\ LET v1 == [vad EXCEPT !.analysisTimer = vadNow + vad.config.analysisInterval]
     IN vad' = IF IsVoice(volume, vad.config.volumeThreshold)
               THEN handleVoiceActivity(v1, vadNow)
               ELSE handleSilence(v1, vadNow)
  /\ obs' = ObsSample(obs, volume, vad.config.volumeThreshold, vad.isSpeaking, vadNow)
  /\ UNCHANGED <<vadNow, impl, worklet, notVAD>>

\* The voiceTimer callback.
VoiceTimerFires ==
  /\ impl = "interval"
  /\ vad.voiceTimer # 0 /\ vad.voiceTimer <= vadNow
  /\ vad' = [vad EXCEPT !.isSpeaking = TRUE, !.voiceTimer = 0,
                        !.events = IF ~vad.isSpeaking
                                   THEN Append(@, "onVoiceStart") ELSE @]
  /\ obs' = IF ~vad.isSpeaking THEN ObsVoiceStart(obs, vadNow) ELSE obs
  /\ UNCHANGED <<vadNow, impl, worklet, notVAD>>

\* The silenceTimer callback.
SilenceTimerFires ==
  /\ impl = "interval"
  /\ vad.silenceTimer # 0 /\ vad.silenceTimer <= vadNow
  /\ vad' = [vad EXCEPT !.isSpeaking = FALSE, !.silenceTimer = 0,
                        !.events = IF vad.isSpeaking
                                   THEN Append(@, "onVoiceEnd") ELSE @]
  /\ obs' = IF vad.isSpeaking THEN ObsVoiceEnd(obs, vadNow) ELSE obs
  /\ UNCHANGED <<vadNow, impl, worklet, notVAD>>

\* A call of startWorklet, up to the first await that does not resolve
\* within the task (resume() of a suspended context, or getUserMedia).
BeginStartWorklet ==
  /\ impl \in {"none", "worklet"}
  /\ ~worklet.isListening /\ worklet.stage = "idle"
  /\ impl' = "worklet"
  /\ \E cs \in ContextStates :
       worklet' = [worklet EXCEPT !.stage = IF cs = "running" THEN "device"
                                           ELSE "context",
                                  !.stopped = FALSE]
  /\ UNCHANGED <<vadNow, vad, obs, notVAD>>

\* resume() resolved: getUserMedia is awaited.
WorkletContextReady ==
  /\ impl = "worklet"
  /\ worklet.stage = "context"
  /\ worklet' = [worklet EXCEPT !.stage = "device"]
  /\ UNCHANGED <<vadNow, impl, vad, obs, notVAD>>

\* getUserMedia resolved: the stream is kept, the source node is created and
\* audioWorklet.addModule is awaited.
WorkletDeviceReady ==
  /\ impl = "worklet"
  /\ worklet.stage = "device"
  /\ worklet' = [worklet EXCEPT !.stage = "module", !.stream = TRUE]
  /\ UNCHANGED <<vadNow, impl, vad, obs, notVAD>>

\* An awaited promise of startWorklet rejected: the catch block rethrows.
StartWorkletFailed ==
  /\ impl = "worklet"
  /\ worklet.stage # "idle"
  /\ worklet' = [worklet EXCEPT !.stage = "idle"]
  /\ UNCHANGED <<vadNow, impl, vad, obs, notVAD>>

\* addModule resolved: the rest of startWorklet; a new processor is built and
\* connected.
StartWorklet ==
  /\ impl = "worklet"
  /\ worklet.stage = "module"
  /\ worklet' = [worklet EXCEPT !.stage = "idle",
                                !.isListening = TRUE,
                                !.nextProcess = vadNow + VadTick,
                                !.processor = NewProcessor(worklet.config)]
  /\ UNCHANGED <<vadNow, impl, vad, obs, notVAD>>

\* stopWorklet, while listening or while a start is in progress.
StopWorklet ==
  /\ impl = "worklet"
  /\ worklet.isListening \/ worklet.stage # "idle"
  /\ worklet' = [worklet EXCEPT !.isListening = FALSE, !.nextProcess = 0,
                                !.stream = FALSE, !.stopped = TRUE]
  /\ obs' = ObsInit
  /\ UNCHANGED <<vadNow, impl, vad, notVAD>>

\* VolumeProcessor.process on one block of samples of the given volume.
ProcessVoice(p, currentTime) ==
  LET p1 == IF ~p.isSpeaking
            THEN IF p.voiceStart = 0
                 THEN [p EXCEPT !.voiceStart = currentTime]
                 ELSE IF currentTime - p.voiceStart >= p.voiceTimeout
                      THEN [p EXCEPT !.isSpeaking = TRUE, !.voiceStart = 0]
                      ELSE p
            ELSE p
  IN [p1 EXCEPT !.silenceStart = 0]

ProcessSilence(p, currentTime) ==
  LET p1 == [p EXCEPT !.voiceStart = 0] IN
  IF p1.isSpeaking
  THEN IF p1.silenceStart = 0
       THEN [p1 EXCEPT !.silenceStart = currentTime]
       ELSE IF currentTime - p1.silenceStart >= p1.silenceTimeout
            THEN [p1 EXCEPT !.isSpeaking = FALSE, !.silenceStart = 0]
            ELSE p1
  ELSE p1

Process(volume) ==
  /\ impl = "worklet"
  /\ worklet.nextProcess # 0 /\ worklet.nextProcess <= vadNow
  /\ LET p == worklet.processor
         p1 == IF IsVoice(volume, p.volumeThreshold)
               THEN ProcessVoice(p, vadNow)
               ELSE ProcessSilence(p, vadNow)
         o1 == ObsSample(obs, volume, p.volumeThreshold, p.isSpeaking, vadNow)
     IN /\ worklet' = [worklet EXCEPT !.processor = p1,
                                      !.nextProcess = vadNow + VadTick]
        /\ obs' = IF ~p.isSpeaking /\ p1.isSpeaking THEN ObsVoiceStart(o1, vadNow)
                  ELSE IF p.isSpeaking /\ ~p1.isSpeaking THEN ObsVoiceEnd(o1, vadNow)
                  ELSE o1
  /\ UNCHANGED <<vadNow, impl, vad, notVAD>>

\* The objects handed to updateConfig, each with one key: thresholds 0.005
\* and 1.5, timeouts of 100 ms and -50 ms.
ConfigUpdates ==
  {<<"volumeThreshold", 5>>, <<"volumeThreshold", 1500>>,
   <<"voiceTimeout", 100>>, <<"silenceTimeout", -50>>}

\* Object.assign(config, newConfig)
ObjectAssign(config, newConfig) ==
  [config EXCEPT ![newConfig[1]] = newConfig[2]]

\* updateConfig of the interval detector.
UpdateConfig(newConfig) ==
  /\ impl = "interval"
  /\ vad.updates < MaxUpdates
  /\ vad' = [vad EXCEPT !.config = ObjectAssign(@, newConfig),
                        !.updates = @ + 1, !.lastUpdate = newConfig]
  /\ UNCHANGED <<vadNow, impl, worklet, obs, notVAD>>

\* updateConfig of the worklet composable: the processor is not told.
UpdateWorkletConfig(newConfig) ==
  /\ impl = "worklet"
  /\ worklet.updates < MaxUpdates
  /\ worklet' = [worklet EXCEPT !.config = ObjectAssign(@, newConfig),
                                !.updates = @ + 1, !.lastUpdate = newConfig]
  /\ UNCHANGED <<vadNow, impl, vad, obs, notVAD>>

\* A callback of the detector in use is due now.
VadDue ==
  \/ vad.analysisTimer # 0 /\ vad.analysisTimer <= vadNow
  \/ vad.voiceTimer # 0 /\ vad.voiceTimer <= vadNow
  \/ vad.silenceTimer # 0 /\ vad.silenceTimer <= vadNow
  \/ worklet.nextProcess # 0 /\ worklet.nextProcess <= vadNow

VadAdvance ==
  /\ vadNow + VadTick <= MaxVadTime
  /\ ~VadDue
  /\ vadNow' = vadNow + VadTick
  /\ UNCHANGED <<impl, vad, worklet, obs, notVAD>>

VADNext ==
  \/ BeginStartVAD
  \/ VadContextReady
  \/ StartVADFailed
  \/ StartVAD
  \/ StopVAD
  \/ \E volume \in Volumes : AnalyzeVolume(volume)
  \/ VoiceTimerFires
  \/ SilenceTimerFires
  \/ BeginStartWorklet
  \/ WorkletContextReady
  \/ WorkletDeviceReady
  \/ StartWorkletFailed
  \/ StartWorklet
  \/ StopWorklet
  \/ \E volume \in Volumes : Process(volume)
  \/ VadAdvance

\* The detectors with their configuration changed while they are in use.
ConfigNext ==
  \/ VADNext
  \/ \E newConfig \in ConfigUpdates : UpdateConfig(newConfig)
  \/ \E newConfig \in ConfigUpdates : UpdateWorkletConfig(newConfig)

(***************************************************************************)
(* The stream handler of useWebSocketAudio (useWebSocketAudio.ts 40-563):  *)
(* control messages, binary frames, the chunk deduplication set.           *)
(*                                                                         *)
(* One action is one task of the event loop.  The handler of an            *)
(* audio_chunk message is suspended only while the shared AudioContext is  *)
(* suspended (await resume()); every suspended initialization goes on, in  *)
(* order, when the context runs again.  A chunk is its sequence of bytes.  *)
(***************************************************************************)

\* Bounds of the exploration.
MaxFrames == 3
MaxStreamers == 3
MaxConnections == 2
MaxSuspends == 1
MaxFresh == 102
MaxRepeats == 1

DedupCapacity == 100
FingerprintBytes == 16

SampleRates == {16000, 24000}
FrameChunks == {<<1, 2>>, <<171, 205, 3>>}

\* Chunks of 18 bytes (9 samples) that begin with 8 samples of silence, and
\* one that does not.
SilentStartChunks ==
  {[i \in 1..18 |-> IF i <= 16 THEN 0 ELSE b] : b \in {0, 7}} \cup
  {[i \in 1..18 |-> IF i = 1 THEN 9 ELSE IF i <= 16 THEN 0 ELSE 7]}

\* The k-th of the distinct chunks fed to the deduplicator.
ChunkOf(k) == <<k % 256, k \div 256>>

\* b.toString(16).padStart(2, '0') over the bytes, joined.
Hex(bytes) ==
  [i \in 1..(2 * Len(bytes)) |->
     IF i % 2 = 1 THEN bytes[(i + 1) \div 2] \div 16 ELSE bytes[i \div 2] % 16]

\* `${pcmData.byteLength}_${firstBytes}`
Fingerprint(chunk) ==
  <<Len(chunk), Hex(SubSeq(chunk, 1, Min(FingerprintBytes, Len(chunk))))>>

WsInit ==
  [connected |-> FALSE,
   currentStreamMetadata |-> 0,   \* null, or the metadata's sample_rate
   isStreamingActive |-> FALSE,
   currentResponseId |-> 0,
   audioStreamer |-> 0,           \* null, or the streamer's number
   created |-> 0,                 \* AudioStreamers constructed so far
   live |-> {},                   \* ... of these, the ones not stopped
   pendingInits |-> <<>>,         \* sample rates of the initializations
                                  \* awaiting the shared context
   sharedContext |-> "none",
   processedChunks |-> <<>>,      \* the Set, in insertion order
   connections |-> 0, frames |-> 0, suspends |-> 0, fresh |-> 0, repeats |-> 0,
   inserted |-> <<>>,             \* fingerprints added on this connection
   submitLog |-> <<>>,            \* chunks given to processPCMChunk
   forwardLog |-> <<>>,           \* chunks given to audioStreamer.addPCM16
   forwardSeq |-> <<>>,           \* ... and the arrival numbers of their frames
   pendingBlobs |-> {},           \* Blob frames whose arrayBuffer() is awaited
   binaryType |-> "none",         \* how this socket has delivered binary
                                  \* frames: "arraybuffer" or "blob"
   gain |-> 100]                  \* the gain set on the installed
                                  \* AudioStreamer, in hundredths

\* audioStreamer.stop(); audioStreamer = null
DropStreamer(w) ==
  [w EXCEPT !.live = @ \ {w.audioStreamer}, !.audioStreamer = 0]

\* A duplicate: the set is left as it is.
OnDuplicateRefresh(cache, fp) ==
  SelectSeq(cache, LAMBDA e : e # fp) \o <<fp>>
OnDuplicate(cache, fp) == cache

\* processedChunks.add(fp), then delete the first entry if over capacity.
AddFingerprint(cache, fp) ==
  LET c == Append(cache, fp) IN
  IF Len(c) > DedupCapacity THEN Tail(c) ELSE c

processPCMChunk(w, chunk) ==
  LET chunkFingerprint == Fingerprint(chunk)
      w0 == [w EXCEPT !.submitLog = Append(@, chunk)]
  IN IF \E i \in 1..Len(w.processedChunks) : w.processedChunks[i] = chunkFingerprint
     THEN [w0 EXCEPT !.processedChunks = OnDuplicate(@, chunkFingerprint)]
     ELSE LET w1 == [w0 EXCEPT !.processedChunks = AddFingerprint(@, chunkFingerprint),
                               !.inserted = Append(@, chunkFingerprint)]
          IN IF w1.audioStreamer = 0 THEN w1
             ELSE [w1 EXCEPT !.forwardLog = Append(@, chunk)]

\* A binary frame: processed only while stream metadata is set.
HandleBinary(w, chunk) ==
  IF w.currentStreamMetadata # 0 THEN processPCMChunk(w, chunk) ELSE w

\* initializeAudioStreamerForNewStream after its awaits, and the rest of the
\* audio_chunk handler.
FinishInit(w, rate) ==
  [w EXCEPT !.created = @ + 1, !.audioStreamer = w.created + 1,
            !.live = @ \cup {w.created + 1},
            !.gain = ClampVolume(pb.state.volume),
            !.currentStreamMetadata = rate, !.isStreamingActive = TRUE]

RECURSIVE FinishInits(_, _)
FinishInits(w, rates) ==
  IF rates = <<>> THEN w ELSE FinishInits(FinishInit(w, Head(rates)), Tail(rates))

OnOpen ==
  /\ ~ws.connected
  /\ ws.connections < MaxConnections
  /\ ws' = [DropStreamer(ws) EXCEPT !.connected = TRUE, !.connections = @ + 1,
                                    !.currentStreamMetadata = 0,
                                    !.isStreamingActive = FALSE,
                                    !.processedChunks = <<>>,
                                    !.inserted = <<>>, !.submitLog = <<>>,
                                    !.forwardLog = <<>>, !.forwardSeq = <<>>,
                                    !.binaryType = "none"]
  /\ UNCHANGED notHandler

OnClose ==
  /\ ws.connected
  /\ ws' = [DropStreamer(ws) EXCEPT !.connected = FALSE,
                                    !.currentStreamMetadata = 0,
                                    !.isStreamingActive = FALSE]
  /\ UNCHANGED notHandler

MsgResponse(responseId) ==
  /\ ws.connected
  /\ ws.currentResponseId # responseId
  /\ ws' = [ws EXCEPT !.currentResponseId = responseId,
                      !.currentStreamMetadata = 0, !.isStreamingActive = FALSE]
  /\ UNCHANGED notHandler

needsNewStreamer(w, rate) ==
  \/ ~w.isStreamingActive
  \/ w.audioStreamer = 0
  \/ (w.currentStreamMetadata # 0 /\ w.currentStreamMetadata # rate)

\* An audio_chunk control message; cs is the state a shared context created
\* by this call starts in.
MsgAudioChunk(rate, cs) ==
  /\ ws.connected
  /\ IF needsNewStreamer(ws, rate)
     THEN /\ ws.created + Len(ws.pendingInits) < MaxStreamers
          /\ LET w1 == DropStreamer(ws)
                 w2 == IF w1.sharedContext = "none"
                       THEN [w1 EXCEPT !.sharedContext = cs] ELSE w1
             IN ws' = IF w2.sharedContext = "running"
                      THEN FinishInit(w2, rate)
                      ELSE [w2 EXCEPT !.pendingInits = Append(@, rate)]
     ELSE ws' = [ws EXCEPT !.currentStreamMetadata = rate,
                           !.isStreamingActive = TRUE]
  /\ UNCHANGED notHandler

\* An audio_complete control message: finalizePCMStream.
MsgAudioComplete ==
  /\ ws.connected
  /\ ws.currentStreamMetadata # 0 \/ ws.currentResponseId # 0
  /\ ws' = [ws EXCEPT !.currentStreamMetadata = 0, !.isStreamingActive = FALSE,
                      !.currentResponseId = 0]
  /\ UNCHANGED notHandler

\* The frame that arrived as number seq is handled; its number is noted if
\* its chunk reaches addPCM16.
Deliver(w, chunk, seq) ==
  LET w1 == HandleBinary(w, chunk) IN
  [w1 EXCEPT !.forwardSeq = IF Len(w1.forwardLog) > Len(w.forwardLog)
                            THEN Append(@, seq) ELSE @]

BinaryFrame(chunk) ==
  /\ ws.connected
  /\ ws.frames < MaxFrames
  /\ ws.binaryType # "blob"
  /\ ws' = Deliver([ws EXCEPT !.frames = @ + 1, !.binaryType = "arraybuffer"],
                   chunk, ws.frames + 1)
  /\ UNCHANGED notHandler

\* A binary frame delivered as a Blob: the handler awaits
\* event.data.arrayBuffer().
BlobFrame(chunk) ==
  /\ ws.connected
  /\ ws.frames < MaxFrames
  /\ ws.binaryType # "arraybuffer"
  /\ ws' = [ws EXCEPT !.frames = @ + 1, !.binaryType = "blob",
                      !.pendingBlobs = @ \cup {[seq |-> ws.frames + 1,
                                                chunk |-> chunk]}]
  /\ UNCHANGED notHandler

\* The arrayBuffer() promise of one Blob resolved: the rest of the handler.
\* The reads of different Blobs are independent of each other.
BlobRead(blob) ==
  /\ blob \in ws.pendingBlobs
  /\ ws' = Deliver([ws EXCEPT !.pendingBlobs = @ \ {blob}], blob.chunk, blob.seq)
  /\ UNCHANGED notHandler

\* useAudioPlayback.setVolume, and the handler's watcher of
\* playbackState.volume when the value changed.
SetPlaybackVolume(volume) ==
  /\ pb' = [pb EXCEPT !.state.volume = ClampVolume(volume)]
  /\ ws' = IF ClampVolume(volume) # pb.state.volume /\ ws.audioStreamer # 0
           THEN [ws EXCEPT !.gain = ClampVolume(ClampVolume(volume))]
           ELSE ws
  /\ UNCHANGED <<streamerVars, vadVars, sessionVars>>

\* useAudioPlayback.toggleMute, and the handler's watcher of
\* playbackState.isMuted.
TogglePlaybackMute ==
  /\ pb' = [pb EXCEPT !.state.isMuted = ~@]
  /\ ws' = IF ws.audioStreamer = 0 THEN ws
           ELSE IF ~pb.state.isMuted THEN [ws EXCEPT !.gain = ClampVolume(0)]
           ELSE [ws EXCEPT !.gain = ClampVolume(pb.state.volume)]
  /\ UNCHANGED <<streamerVars, vadVars, sessionVars>>

\* The browser suspends the shared context (the detectors and the streamer
\* check for it); it runs again when resume() succeeds.
SharedContextSuspended ==
  /\ ws.sharedContext = "running"
  /\ ws.suspends < MaxSuspends
  /\ ws' = [ws EXCEPT !.sharedContext = "suspended", !.suspends = @ + 1]
  /\ UNCHANGED notHandler

SharedContextResumed ==
  /\ ws.sharedContext = "suspended"
  /\ ws' = FinishInits([ws EXCEPT !.sharedContext = "running",
                                  !.pendingInits = <<>>], ws.pendingInits)
  /\ UNCHANGED notHandler

HandlerNext ==
  \/ OnOpen
  \/ OnClose
  \/ \E responseId \in 1..2 : MsgResponse(responseId)
  \/ \E rate \in SampleRates, cs \in ContextStates : MsgAudioChunk(rate, cs)
  \/ MsgAudioComplete
  \/ \E chunk \in FrameChunks : BinaryFrame(chunk)
  \/ SharedContextSuspended
  \/ SharedContextResumed

\* One connection with one running stream receiving binary frames, as
\* ArrayBuffer or as Blob.
FramesNext ==
  \/ ws.connections = 0 /\ OnOpen
  \/ ws.created = 0 /\ MsgAudioChunk(24000, "running")
  \/ \E chunk \in FrameChunks \cup SilentStartChunks : BinaryFrame(chunk)
  \/ \E chunk \in FrameChunks \cup SilentStartChunks : BlobFrame(chunk)
  \/ \E blob \in ws.pendingBlobs : BlobRead(blob)

\* One connection whose streams get their streamers at once, with the
\* playback volume and mute changed meanwhile.
GainNext ==
  \/ ws.connections = 0 /\ OnOpen
  \/ \E responseId \in 1..2 : MsgResponse(responseId)
  \/ \E rate \in SampleRates : MsgAudioChunk(rate, "running")
  \/ MsgAudioComplete
  \/ \E volume \in StreamerVolumes : SetPlaybackVolume(volume)
  \/ TogglePlaybackMute

\* Feeding the deduplicator of one connection with one running stream: the
\* next chunk never seen before, or again a chunk seen before.
FreshFrame ==
  /\ ws.connected
  /\ ws.fresh < MaxFresh
  /\ ws' = HandleBinary([ws EXCEPT !.fresh = @ + 1], ChunkOf(ws.fresh + 1))
  /\ UNCHANGED notHandler

RepeatFrame(k) ==
  /\ ws.connected
  /\ ws.repeats < MaxRepeats
  /\ k >= 1 /\ k <= ws.fresh
  /\ ws' = HandleBinary([ws EXCEPT !.repeats = @ + 1], ChunkOf(k))
  /\ UNCHANGED notHandler

DedupNext ==
  \/ ws.connections = 0 /\ OnOpen
  \/ ws.created = 0 /\ MsgAudioChunk(24000, "running")
  \/ FreshFrame
  \/ \E k \in {ws.fresh - DedupCapacity, ws.fresh - DedupCapacity + 1, ws.fresh} :
       RepeatFrame(k)


(***************************************************************************)
(* useAudioCapture (useAudioCapture.ts) and the callers of the shared      *)
(* context manager useSharedAudioContext (useWebSocketAudio.ts 677-842).   *)
(*                                                                         *)
(* startRecording is followed through its awaits: the socket, the          *)
(* microphone, the worklet module.  cleanup is followed through its await  *)
(* of close().  The shared context itself is ws.sharedContext.             *)
(***************************************************************************)
\* Bounds of the exploration.
MaxStarts == 2
MaxEnsures == 2
MaxCaptured == 4480
MaxGets == 5
MaxToggles == 4
MaxVoiceStarts == 3
MaxDestroys == 2

\* AudioProcessingWorklet.buffer.length
FrameSamples == 2048

\* Lengths of the blocks of samples process() is called with.
QuantumSizes == {128, 384}

\* The k-th sample the microphone gives, in 65536ths: -1.0 is -65536 and 1.0
\* is 65536.  The samples run over the whole range; the 100th is 1.0.
SampleAt(k) == ((k * 7919 + 125610) % 131073) - 65536

\* buffer[i] = float32Array[i] * 32768 on an Int16Array: the product loses
\* its fraction and is taken modulo 2^16 into -32768..32767.
ToInt16(v) ==
  LET t == IF v >= 0 THEN v \div 2 ELSE -((-v) \div 2)
  IN ((t + 32768) % 65536) - 32768

\* processChunk without the reset of bufferWriteIndex after a chunk is
\* posted.
RECURSIVE ProcessChunkNoClear(_, _, _)
ProcessChunkNoClear(p, float32Array, i) ==
  IF i > Len(float32Array) THEN p
  ELSE LET room == IF Len(p.buffer) < FrameSamples
                   THEN FrameSamples - Len(p.buffer) ELSE 1
           last == IF i + room - 1 <= Len(float32Array)
                   THEN i + room - 1 ELSE Len(float32Array)
           b == p.buffer \o [j \in 1..(last - i + 1) |-> ToInt16(float32Array[i + j - 1])]
       IN ProcessChunkNoClear(
            IF Len(b) >= FrameSamples
            THEN [p EXCEPT !.buffer = b, !.posted = Append(@, b)]
            ELSE [p EXCEPT !.buffer = b],
            float32Array, last + 1)

\* processChunk from sample i on: the samples are converted and written one
\* after another, and when bufferWriteIndex reaches the buffer's length the
\* buffer is posted and started anew (sendAndClearBuffer).  The samples up to
\* the next full buffer are taken in one step.
RECURSIVE ProcessChunk(_, _, _)
ProcessChunk(p, float32Array, i) ==
  IF i > Len(float32Array) THEN p
  ELSE LET room == FrameSamples - Len(p.buffer)
           last == IF i + room - 1 <= Len(float32Array)
                   THEN i + room - 1 ELSE Len(float32Array)
           b == p.buffer \o [j \in 1..(last - i + 1) |-> ToInt16(float32Array[i + j - 1])]
       IN ProcessChunk(
            IF Len(b) >= FrameSamples
            THEN [p EXCEPT !.buffer = <<>>, !.posted = Append(@, b)]
            ELSE [p EXCEPT !.buffer = b],
            float32Array, last + 1)

\* A new AudioProcessingWorklet and its port.
ProcessorInit ==
  [buffer |-> <<>>,           \* buffer.slice(0, bufferWriteIndex)
   posted |-> <<>>,           \* the chunks posted so far
   handled |-> 0,             \* ... of these, the ones port.onmessage took
   captured |-> 0]            \* samples process() was given so far

CapInit ==
  [isRecording |-> FALSE, isConnecting |-> FALSE,
   audioContext |-> "none",     \* audioContext.value: none, open or closed
   mediaStream |-> FALSE, audioWorkletNode |-> FALSE,
   websocket |-> "none",        \* websocket.value: none, open or closing
   isSharedWebSocket |-> FALSE,
   stage |-> "idle",            \* what startRecording awaits
   cleaning |-> "none",         \* what a cleanup in progress awaits
   live |-> 0,                  \* contexts constructed here and not closed
   starts |-> 0,                \* startRecording calls so far
   stopped |-> FALSE,           \* stopRecording was called, and
                                \* startRecording not since
   processor |-> ProcessorInit,
   sent |-> <<>>]               \* numbers of the chunks given to
                                \* websocket.send, for this processor

MgrInit ==
  [ensure |-> "idle",           \* idle, pending, or what the caller got:
                                \* "true", "false", "threw"
   resume |-> "none",           \* outcome of the awaited resume()
   calls |-> 0,
   \* The instances, where getAudioContext calls are followed one by one:
   sharedAudioContext |-> 0,    \* null, or the number of the instance
   contexts |-> <<>>,           \* state of every instance created
   awaiting |-> <<>>,           \* per call awaiting resume(): its instance
   returned |-> <<>>,           \* the instances handed to callers
   threw |-> 0,                 \* calls that ended with an exception
   closing |-> 0,               \* the instance destroyAudioContext awaits
   gets |-> 0, destroys |-> 0]

\* The end of cleanup: the socket is released.
ReleaseSocket(c) ==
  IF c.websocket = "open" /\ ~c.isSharedWebSocket
  THEN [c EXCEPT !.websocket = "closing", !.cleaning = "socket"]
  ELSE [c EXCEPT !.websocket = "none", !.isSharedWebSocket = FALSE,
                 !.cleaning = "none"]

\* cleanup up to its first await.
cleanup(c) ==
  LET c1 == [c EXCEPT !.audioWorkletNode = FALSE, !.mediaStream = FALSE] IN
  IF c1.audioContext = "open"
  THEN [c1 EXCEPT !.audioContext = "closed", !.live = @ - 1,
                  !.cleaning = IF @ = "none" THEN "context" ELSE @]
  ELSE IF c1.cleaning # "none" THEN c1
  ELSE ReleaseSocket(c1)

\* startRecording up to its first await: with an existing open socket the
\* microphone is awaited, with a URL the connection.
startRecording(c, existingWebSocket) ==
  IF existingWebSocket
  THEN [c EXCEPT !.isConnecting = TRUE, !.websocket = "open",
                 !.isSharedWebSocket = TRUE, !.stage = "device",
                 !.starts = @ + 1, !.stopped = FALSE]
  ELSE [c EXCEPT !.isConnecting = TRUE, !.stage = "socket",
                 !.starts = @ + 1, !.stopped = FALSE]

StartRecording(existingWebSocket) ==
  /\ ~cap.isConnecting /\ ~cap.isRecording
  /\ cap.starts < MaxStarts
  /\ cap.stage = "idle" /\ cap.cleaning = "none"
  /\ cap.websocket \in {"none", "dropped"}
  /\ cap' = startRecording(cap, existingWebSocket)
  /\ UNCHANGED notCapture

\* connectWebSocket resolved.
SocketConnected ==
  /\ cap.stage = "socket"
  /\ cap' = [cap EXCEPT !.websocket = "open", !.isSharedWebSocket = FALSE,
                        !.stage = "device"]
  /\ UNCHANGED notCapture

\* getUserMedia resolved: the stream is kept, a context is constructed and
\* audioWorklet.addModule is awaited.
MicrophoneGranted ==
  /\ cap.stage = "device"
  /\ cap' = [cap EXCEPT !.mediaStream = TRUE, !.audioContext = "open",
                        !.live = @ + 1, !.stage = "module"]
  /\ UNCHANGED notCapture

\* addModule resolved: the rest of startRecording.  A new worklet node and
\* processor are made and port.onmessage is set.
ModuleLoaded ==
  /\ cap.stage = "module"
  /\ cap' = [cap EXCEPT !.audioWorkletNode = TRUE, !.isRecording = TRUE,
                        !.isConnecting = FALSE, !.stage = "idle",
                        !.processor = ProcessorInit, !.sent = <<>>]
  /\ UNCHANGED notCapture

\* AudioProcessingWorklet.process on the next quantum of microphone samples.
WorkletProcess(quantum) ==
  /\ cap.audioWorkletNode /\ cap.mediaStream
  /\ cap.processor.captured + quantum <= MaxCaptured
  /\ LET n == cap.processor.captured
         channel0 == [i \in 1..quantum |-> SampleAt(n + i)]
     IN cap' = [cap EXCEPT !.processor =
                  [ProcessChunk(@, channel0, 1) EXCEPT !.captured = n + quantum]]
  /\ UNCHANGED notCapture

\* audioWorkletNode.port.onmessage on the next chunk posted: it is sent
\* while recording on an open socket, and dropped otherwise.
PortMessage ==
  /\ cap.audioWorkletNode
  /\ cap.processor.handled < Len(cap.processor.posted)
  /\ LET k == cap.processor.handled + 1 IN
     cap' = [cap EXCEPT !.processor.handled = k,
                        !.sent = IF cap.isRecording /\ cap.websocket = "open"
                                 THEN Append(@, k) ELSE @]
  /\ UNCHANGED notCapture

\* The peer closes the socket: readyState is CLOSED.
SocketDropped ==
  /\ cap.websocket = "open"
  /\ cap' = [cap EXCEPT !.websocket = "dropped"]
  /\ UNCHANGED notCapture

\* An awaited promise of startRecording rejected: the catch block.
StartRecordingFailed ==
  /\ cap.stage # "idle"
  /\ cap' = cleanup([cap EXCEPT !.isConnecting = FALSE, !.stage = "idle"])
  /\ UNCHANGED notCapture

\* stopRecording up to the first await of cleanup.
stopRecording(c) ==
  cleanup([c EXCEPT !.isRecording = FALSE, !.isConnecting = FALSE,
                    !.stopped = TRUE])

StopRecording ==
  /\ cap.isRecording \/ cap.isConnecting
  /\ cap.cleaning = "none"
  /\ cap' = stopRecording(cap)
  /\ UNCHANGED notCapture

\* The promise cleanup awaits resolved: after close() the context reference
\* is dropped and the socket released; after the socket closed the rest.
CleanupContinues ==
  /\ cap.cleaning # "none"
  /\ cap' = IF cap.cleaning = "context"
            THEN ReleaseSocket([cap EXCEPT !.audioContext = "none"])
            ELSE [cap EXCEPT !.websocket = "none", !.isSharedWebSocket = FALSE,
                             !.cleaning = "none"]
  /\ UNCHANGED notCapture

ConvInit ==
  [isMuted |-> FALSE,
   pending |-> FALSE,           \* a handleVoiceStart is in startAudioRecording,
                                \* before its call of startRecording
   toggles |-> 0, voiceStarts |-> 0]

\* toggleMute having muted: the recording is stopped if isRecording is true.
ToggleMuteStops(c) == IF c.isRecording THEN stopRecording(c) ELSE c

\* toggleMute of the conversation microphone.
ToggleMute ==
  /\ conv.toggles < MaxToggles
  /\ conv' = [conv EXCEPT !.isMuted = ~@, !.toggles = @ + 1]
  /\ cap' = IF ~conv.isMuted THEN ToggleMuteStops(cap) ELSE cap
  /\ UNCHANGED <<streamerVars, playbackVars, vadVars, handlerVars, mgr>>

\* handleVoiceStart on a connected page: unless muted, startAudioRecording
\* is called, which waits 100 ms before it calls startRecording.
HandleVoiceStart ==
  /\ ~conv.isMuted
  /\ ~conv.pending
  /\ conv.voiceStarts < MaxVoiceStarts
  /\ conv' = [conv EXCEPT !.pending = TRUE, !.voiceStarts = @ + 1]
  /\ UNCHANGED <<cap, streamerVars, playbackVars, vadVars, handlerVars, mgr>>

\* The 100 ms have passed: startRecording on the existing socket, which
\* returns at once when a recording is being started or is running.
RecordingDelayElapsed ==
  /\ conv.pending
  /\ cap.stage = "idle" /\ cap.cleaning = "none"
  /\ conv' = [conv EXCEPT !.pending = FALSE]
  /\ cap' = IF cap.isConnecting \/ cap.isRecording THEN cap
            ELSE startRecording(cap, TRUE)
  /\ UNCHANGED <<streamerVars, playbackVars, vadVars, handlerVars, mgr>>

\* What ensureAudioContextReady hands to its caller, given the outcome of
\* the resume() it awaited and the state of the context afterwards.
EnsureResult(outcome, state) ==
  IF outcome = "rejected" THEN "false"
  ELSE IF state = "running" THEN "true" ELSE "false"

\* A call of ensureAudioContextReady: getAudioContext creates the shared
\* context if there is none (it starts in state cs) and awaits resume() if
\* it is suspended.
EnsureAudioContextReady ==
  /\ mgr.ensure # "pending"
  /\ mgr.calls < MaxEnsures
  /\ \E cs \in ContextStates :
       LET w1 == IF ws.sharedContext = "none"
                 THEN [ws EXCEPT !.sharedContext = cs] ELSE ws
       IN /\ ws' = w1
          /\ mgr' = IF w1.sharedContext = "suspended"
                    THEN [mgr EXCEPT !.ensure = "pending", !.resume = "none",
                                     !.calls = @ + 1]
                    ELSE [mgr EXCEPT !.ensure = EnsureResult("none", w1.sharedContext),
                                     !.resume = "none", !.calls = @ + 1]
  /\ UNCHANGED notManager

\* The awaited resume() resolved: the context runs, and the stream handler's
\* initializations waiting for it go on.
EnsureResumeResolved ==
  /\ mgr.ensure = "pending"
  /\ ws' = FinishInits([ws EXCEPT !.sharedContext = "running",
                                  !.pendingInits = <<>>], ws.pendingInits)
  /\ mgr' = [mgr EXCEPT !.ensure = EnsureResult("resolved", "running"),
                        !.resume = "resolved"]
  /\ UNCHANGED notManager

\* The awaited resume() rejected.
EnsureResumeRejected ==
  /\ mgr.ensure = "pending"
  /\ mgr' = [mgr EXCEPT !.ensure = EnsureResult("rejected", ws.sharedContext),
                        !.resume = "rejected"]
  /\ UNCHANGED <<ws, notManager>>

\* getAudioContext creating an instance whatever exists.
CreatesContextAlways(m) == TRUE

\* getAudioContext creates an instance: it calls initializeAudioContext when
\* there is no context or it is closed, and that creates one if
\* (!sharedAudioContext).
CreatesContext(m) ==
  /\ m.sharedAudioContext = 0 \/ m.contexts[m.sharedAudioContext] = "closed"
  /\ m.sharedAudioContext = 0

\* A call of getAudioContext; a new instance starts in state cs.  A suspended
\* context is resumed and the call awaits that; otherwise the call returns
\* sharedAudioContext.
GetAudioContext(cs) ==
  /\ mgr.gets < MaxGets
  /\ LET m1 == IF CreatesContext(mgr)
               THEN [mgr EXCEPT !.contexts = Append(@, cs),
                                !.sharedAudioContext = Len(mgr.contexts) + 1]
               ELSE mgr
         m2 == [m1 EXCEPT !.gets = @ + 1]
     IN mgr' = IF m2.contexts[m2.sharedAudioContext] = "suspended"
               THEN [m2 EXCEPT !.awaiting = Append(@, m2.sharedAudioContext)]
               ELSE [m2 EXCEPT !.returned = Append(@, m2.sharedAudioContext)]
  /\ UNCHANGED <<ws, notManager>>

\* Instance i starts running: every resume() awaited on it resolves, and the
\* calls awaiting it return sharedAudioContext, one after the other.
SharedResumeResolved(i) ==
  /\ mgr.contexts[i] = "suspended"
  /\ \E k \in 1..Len(mgr.awaiting) : mgr.awaiting[k] = i
  /\ LET rest == SelectSeq(mgr.awaiting, LAMBDA a : a # i)
         n == Len(mgr.awaiting) - Len(rest)
     IN mgr' = [mgr EXCEPT !.contexts[i] = "running",
                           !.awaiting = rest,
                           !.returned = @ \o [k \in 1..n |-> mgr.sharedAudioContext]]
  /\ UNCHANGED <<ws, notManager>>

\* destroyAudioContext up to its await of close().
DestroyAudioContext ==
  /\ mgr.destroys < MaxDestroys
  /\ mgr.closing = 0
  /\ mgr.sharedAudioContext # 0
  /\ mgr.contexts[mgr.sharedAudioContext] # "closed"
  /\ mgr' = [mgr EXCEPT !.closing = mgr.sharedAudioContext, !.destroys = @ + 1]
  /\ UNCHANGED <<ws, notManager>>

\* close() resolved: the instance is closed, the resume() calls pending on it
\* are rejected, and destroyAudioContext sets sharedAudioContext = null.
DestroyClosed ==
  /\ mgr.closing # 0
  /\ LET i == mgr.closing
         rest == SelectSeq(mgr.awaiting, LAMBDA a : a # i)
     IN mgr' = [mgr EXCEPT !.contexts[i] = "closed",
                           !.awaiting = rest,
                           !.threw = @ + (Len(mgr.awaiting) - Len(rest)),
                           !.sharedAudioContext = 0,
                           !.closing = 0]
  /\ UNCHANGED <<ws, notManager>>

\* Callers of the shared context manager: overlapping getAudioContext calls
\* and destroyAudioContext.
SharedNext ==
  \/ \E cs \in ContextStates : GetAudioContext(cs)
  \/ \E i \in 1..Len(mgr.contexts) : SharedResumeResolved(i)
  \/ DestroyAudioContext
  \/ DestroyClosed

\* One page using the composables side by side: capture, the shared context
\* manager, the first audio_chunk of the stream handler and the first
\* enqueueAudio of the playback queue.
SessionNext ==
  \/ \E existingWebSocket \in BOOLEAN : StartRecording(existingWebSocket)
  \/ SocketConnected
  \/ MicrophoneGranted
  \/ ModuleLoaded
  \/ StartRecordingFailed
  \/ StopRecording
  \/ CleanupContinues
  \/ EnsureAudioContextReady
  \/ EnsureResumeResolved
  \/ EnsureResumeRejected
  \/ ws.connections = 0 /\ OnOpen
  \/ ws.created = 0 /\ ws.pendingInits = <<>>
       /\ \E cs \in ContextStates : MsgAudioChunk(24000, cs)
  \/ pb.enqueued = 0 /\ \E cs \in ContextStates : EnqueueAudio("ok", FALSE, cs)

Init ==
  /\ now = 0
  /\ streamer = StreamerInit
  /\ stream = 1
  /\ streamClosed = FALSE
  /\ completedStreams = {}
  /\ completeLog = <<>>
  /\ pb = PbInit
  /\ vadNow = VadTick
  /\ impl = "none"
  /\ vad = VadInit
  /\ worklet = WorkletInit
  /\ obs = ObsInit
  /\ ws = WsInit
  /\ cap = CapInit
  /\ mgr = MgrInit
  /\ conv = ConvInit

StreamerNext ==
  \/ \E bytes \in ChunkBytes : AddPCM16(bytes)
  \/ Complete
  \/ Stop
  \/ TimeoutFires
  \/ IntervalFires
  \/ SourceEnded
  \/ Tick
  \/ \E volume \in StreamerVolumes : SetVolume(volume)

SpecStreamer == Init /\ [][StreamerNext]_vars

\* The streamer never stopped: chunks (also of two full buffers), complete(),
\* resume() and the callbacks.
OverlapNext ==
  \/ \E bytes \in ChunkBytes \cup {4 * bufferSize} : AddPCM16(bytes)
  \/ Complete
  \/ Resume
  \/ TimeoutFires
  \/ IntervalFires
  \/ SourceEnded
  \/ Tick

SpecOverlap == Init /\ [][OverlapNext]_vars

\* How far the clock runs where chunks are followed to their scheduling:
\* until all the audio that can have been added has played.
MaxLiveTime ==
  LET longest == CHOOSE b \in ChunkBytes : \A c \in ChunkBytes : c <= b
  IN LastAddTime + initialBufferTime
       + MaxChunks * ProcessPCM16Chunk(longest) + TickStep

\* The clock of the runs in which chunks are followed to their scheduling.
LiveTick ==
  /\ now + TickStep <= MaxLiveTime
  /\ ~TimerDue(streamer, now)
  /\ now' = now + TickStep
  /\ UNCHANGED <<streamer, stream, streamClosed, completedStreams, completeLog, notStreamer>>

LiveNext ==
  \/ \E bytes \in ChunkBytes : now <= LastAddTime /\ AddPCM16(bytes)
  \/ Complete
  \/ Stop
  \/ TimeoutFires
  \/ IntervalFires
  \/ SourceEnded
  \/ LiveTick

\* Timers that are due run, 'ended' events are delivered, and the clock
\* goes on.
SpecStreamerLive ==
  /\ Init /\ [][LiveNext]_vars
  /\ WF_vars(TimeoutFires) /\ WF_vars(IntervalFires)
  /\ WF_vars(SourceEnded) /\ WF_vars(LiveTick)

\* One chunk handed to a new AudioStreamer, followed sample by sample.
SlicerNext ==
  \E n \in SampleChunkBytes, seed \in 0..MaxSeed :
     AddPCM16Samples(PcmChunk(n, seed))

SpecSlicer == Init /\ [][SlicerNext]_vars

SpecPlayback == Init /\ [][PlaybackNext]_vars

SpecHealth == Init /\ [][HealthNext]_vars

SpecQueue == Init /\ [][QueueNext]_vars

SpecVAD == Init /\ [][VADNext]_vars

SpecConfig == Init /\ [][ConfigNext]_vars

SpecHandler == Init /\ [][HandlerNext]_vars

SpecFrames == Init /\ [][FramesNext]_vars

SpecDedup == Init /\ [][DedupNext]_vars

SpecSession == Init /\ [][SessionNext]_vars

\* Recording on an existing socket: the worklet processes the microphone
\* samples and the page forwards the chunks it posts.
CaptureNext ==
  \/ StartRecording(TRUE)
  \/ MicrophoneGranted
  \/ ModuleLoaded
  \/ StopRecording
  \/ CleanupContinues
  \/ SocketDropped
  \/ \E quantum \in QuantumSizes : WorkletProcess(quantum)
  \/ PortMessage

SpecCapture == Init /\ [][CaptureNext]_vars

SpecShared == Init /\ [][SharedNext]_vars

SpecGain == Init /\ [][GainNext]_vars

\* The conversation: voice detected, the microphone muted and unmuted, and
\* the recording started for it.
MuteNext ==
  \/ HandleVoiceStart
  \/ RecordingDelayElapsed
  \/ ToggleMute
  \/ MicrophoneGranted
  \/ ModuleLoaded
  \/ StartRecordingFailed
  \/ CleanupContinues

SpecMute == Init /\ [][MuteNext]_vars

\* C1: every block starts no earlier than the clock at the moment it was
\* scheduled, and the blocks of one stream are scheduled at non-decreasing
\* start times.
C1_StartTimes ==
  \A j \in 1..Len(streamer.sources) :
    /\ streamer.sources[j].start >= streamer.sources[j].at
    /\ \A i \in 1..(j - 1) :
         streamer.sources[i].stream = streamer.sources[j].stream
           => streamer.sources[i].start <= streamer.sources[j].start

\* Reached: a later block of the same stream was scheduled when the cursor
\* had fallen behind the clock, so it starts at the clock time.
C1_Witness ==
  \E j \in 1..Len(streamer.sources) : \E i \in 1..(j - 1) :
    /\ streamer.sources[i].stream = streamer.sources[j].stream
    /\ streamer.sources[j].start = streamer.sources[j].at
    /\ streamer.sources[j].at > streamer.sources[i].start + streamer.sources[i].duration

\* C2: onComplete is never invoked twice for the same stream.
C2_OnCompleteOnce ==
  \A i, j \in 1..Len(completeLog) :
    i # j => completeLog[i].stream # completeLog[j].stream

\* C3: onComplete fires only when complete() was called on the stream, no
\* block is queued and no scheduled block is still playing.
C3_OnCompleteOnlyWhenDone ==
  \A i \in 1..Len(completeLog) :
    /\ completeLog[i].completeCalled
    /\ completeLog[i].queued = 0
    /\ ~completeLog[i].playing

(***************************************************************************)
(* Properties of the playback queue manager                                *)
(***************************************************************************)

\* C4: single-flight - under any interleaving of enqueueAudio, processQueue
\* timers, decode completions, 'ended' events, stopPlayback/pauseQueue/
\* resumeQueue and recoverFromErrors there are never two started,
\* not-yet-ended audio sources at the same time.
C4_SingleFlight == Cardinality(pb.playing) <= 1

\* C5: strict FIFO - as long as nothing was cleared, every step starts and
\* attempts items in the order of their enqueueing (a retried item is
\* re-attempted before any later item), and an item enqueued while the
\* manager is idle (nothing playing, nothing queued) and healthy is taken for
\* playback in the same step.
C5_StrictFIFO ==
  [][~pb'.cleared =>
       /\ pb'.lastStarted >= pb.lastStarted
       /\ pb'.lastAttempt >= pb.lastAttempt
       /\ (/\ pb'.enqueued = pb.enqueued + 1
           /\ ~pb.state.isPlaying /\ isHealthy(pb) /\ ~hasItemsInQueue(pb))
          => pb'.lastAttempt = pb'.enqueued]_vars

\* C10: once 5 consecutive playback failures have happened the queue is
\* unhealthy, and until recoverFromErrors (or clearQueue, which also resets
\* the error state) is called no step dequeues or starts an item.
C10_HaltAfterFiveFailures ==
  [][pb.halted /\ pb'.halted =>
       /\ ~isHealthy(pb')
       /\ pb'.lastAttempt = pb.lastAttempt
       /\ pb'.lastStarted = pb.lastStarted
       /\ Len(pb'.audioQueue) >= Len(pb.audioQueue)
       /\ pb'.playing \subseteq pb.playing]_vars

(***************************************************************************)
(* Properties of voice activity detection                                  *)
(***************************************************************************)

\* The detector in use: its timeouts, its state, and whether every callback
\* due by now has run.
VoiceTimeoutInUse ==
  IF impl = "interval" THEN vad.config.voiceTimeout ELSE worklet.processor.voiceTimeout
SilenceTimeoutInUse ==
  IF impl = "interval" THEN vad.config.silenceTimeout ELSE worklet.processor.silenceTimeout
SpeakingInUse ==
  IF impl = "interval" THEN vad.isSpeaking ELSE worklet.processor.isSpeaking
ListeningInUse ==
  IF impl = "interval" THEN vad.isListening ELSE worklet.isListening

\* C6: voice start - while not speaking, samples above the threshold for at
\* least voiceTimeout yield exactly one onVoiceStart and isSpeaking becomes
\* true; a run of samples above the threshold never yields two, and an
\* onVoiceStart is never emitted for a run that a sample at or below the
\* threshold ended before voiceTimeout had passed.
C6_VoiceStart ==
  /\ obs.runStarts <= 1
  /\ obs.runStarts = 1 =>
       obs.runStart # -1 /\ obs.startAt - obs.runStart >= VoiceTimeoutInUse
  /\ (ListeningInUse /\ ~VadDue /\ obs.runStart # -1
        /\ vadNow - obs.runStart >= VoiceTimeoutInUse)
     => obs.runStarts = 1 /\ SpeakingInUse

C6_Witness ==
  /\ obs.runStarts = 1 /\ SpeakingInUse
  /\ obs.startAt - obs.runStart = VoiceTimeoutInUse
  /\ vadNow > obs.startAt

\* C7: voice end - while speaking, samples at or below the threshold for
\* silenceTimeout yield exactly one onVoiceEnd and a return to not-speaking;
\* a sample above the threshold before the silence deadline cancels it and
\* no onVoiceEnd is emitted.
C7_VoiceEnd ==
  /\ obs.quietEnds <= 1
  /\ obs.quietEnds = 1 =>
       obs.quietStart # -1 /\ obs.endAt - obs.quietStart >= SilenceTimeoutInUse
  /\ (ListeningInUse /\ ~VadDue /\ obs.quietStart # -1
        /\ vadNow - obs.quietStart >= SilenceTimeoutInUse)
     => obs.quietEnds = 1 /\ ~SpeakingInUse

C7_Witness ==
  /\ obs.quietEnds = 1 /\ ~SpeakingInUse
  /\ obs.endAt - obs.quietStart = SilenceTimeoutInUse
  /\ vadNow > obs.endAt

(***************************************************************************)
(* Properties of the chunk deduplicator                                    *)
(***************************************************************************)

Count(log, x) == Cardinality({i \in 1..Len(log) : log[i] = x})

\* C8: on one connection and within the cache window (no fingerprint has
\* been evicted yet), a byte sequence submitted to the deduplicator twice or
\* more has been forwarded to the scheduler exactly once.
C8_DuplicateForwardedOnce ==
  Len(ws.inserted) <= DedupCapacity =>
    \A i \in 1..Len(ws.submitLog) :
      Count(ws.submitLog, ws.submitLog[i]) >= 2
        => Count(ws.forwardLog, ws.submitLog[i]) = 1

\* C9: the cache never holds more than 100 fingerprints, and it is always
\* the most recently inserted ones in insertion order: going over capacity
\* evicts the oldest-inserted fingerprint, and a duplicate hit does not move
\* the entry it matched.
C9_BoundedFifoCache ==
  LET n == Len(ws.inserted)
      kept == Min(DedupCapacity, n)
  IN /\ Len(ws.processedChunks) <= DedupCapacity
     /\ ws.processedChunks = SubSeq(ws.inserted, n - kept + 1, n)

C9_Witness ==
  /\ Len(ws.processedChunks) = DedupCapacity
  /\ Len(ws.inserted) = DedupCapacity + 1
  /\ Len(ws.submitLog) = DedupCapacity + 2
  /\ ws.submitLog[DedupCapacity + 1] = ws.submitLog[1]
  /\ \A i \in 1..DedupCapacity : ws.processedChunks[i] # ws.inserted[1]

\* C11: when recoverFromErrors completes (audioContext.close() has resolved
\* and the rest of the function has run, a new context having been
\* constructed), playback is stopped (isPlaying is false and no source is
\* sounding), errorCount is 0, isRecovering is false, isHealthy is true, and
\* if items remain in the queue one more processQueue timer is pending.
C11_RecoverPostcondition ==
  [][(pb.closing /\ ~pb'.closing /\ pb'.audioContext # "none") =>
       /\ ~pb'.state.isPlaying
       /\ pb'.playing = {}
       /\ pb'.state.errorCount = 0
       /\ ~pb'.state.isRecovering
       /\ isHealthy(pb')
       /\ hasItemsInQueue(pb') => pb'.timers = pb.timers + 1]_vars

\* C12: isRecovering becomes true only when errorCount has reached 5 or by
\* recoverFromErrors itself, and it becomes false only when recoverFromErrors
\* completes.
C12_RecoveringClearedOnlyByRecover ==
  [][/\ (~pb.state.isRecovering /\ pb'.state.isRecovering) =>
          (pb.state.errorCount >= MaxErrors \/ pb'.closing)
     /\ (pb.state.isRecovering /\ ~pb'.state.isRecovering) =>
          (pb.closing /\ ~pb'.closing)]_vars

\* C13: no item has been put back for a retry more than 2 times (so it is
\* passed to playAudioBuffer at most 3 times), an item marked as streaming
\* never, and an item put back for a retry stays ahead of every item enqueued
\* after it (the queue is in enqueue order).
C13_RetryPolicy ==
  /\ \A item \in pb.decoding \cup {pb.audioQueue[k] : k \in 1..Len(pb.audioQueue)} :
        /\ item.retryCount <= MaxRetries
        /\ item.streaming => item.retryCount = 0
  /\ \A j, k \in 1..Len(pb.audioQueue) :
        j < k => pb.audioQueue[j].id < pb.audioQueue[k].id

\* C14: from the return of stop() until the next addPCM16, the block queue is
\* empty, polling is off, no block is scheduled (no source node is created)
\* and onComplete is not invoked.
C14_StopCancelsCallbacks ==
  [][(streamer.stopped /\ streamer'.stopped) =>
       /\ Len(streamer'.audioQueue) = 0
       /\ ~streamer'.checkInterval
       /\ streamer'.sources = streamer.sources
       /\ completeLog' = completeLog]_vars

\* C15: from the return of stopPlayback()/pauseQueue() until the next
\* resumeQueue, enqueueAudio or recovery, no source is sounding, no item is
\* taken from the queue and no item is started.
C15_PauseCancelsCallbacks ==
  [][(pb.paused /\ pb'.paused) =>
       /\ pb'.playing = {}
       /\ pb'.lastAttempt = pb.lastAttempt
       /\ pb'.lastStarted = pb.lastStarted]_vars

\* C16: once stopVAD (stopWorklet) has been called and startVAD (startWorklet)
\* not again, the detector is stopped: it is not listening, no analysis is
\* scheduled and no microphone stream is held, also after a start that was
\* in progress at the time of the stop has resumed.
C16_StaleStartKeepsStopped ==
  /\ vad.stopped => ~vad.isListening /\ vad.analysisTimer = 0 /\ ~vad.stream
  /\ worklet.stopped =>
       ~worklet.isListening /\ worklet.nextProcess = 0 /\ ~worklet.stream

\* The AudioContext instances alive: the shared one, the one of the playback
\* queue manager, and those of capture.
ContextInstances ==
  (IF ws.sharedContext # "none" THEN 1 ELSE 0)
  + (IF pb.audioContext # "none" THEN 1 ELSE 0)
  + cap.live

\* C17: at any time at most one AudioContext instance exists, and it is the
\* one of the shared-context manager: the playback queue manager and capture
\* construct none.
C17_SingleSharedContext ==
  /\ ContextInstances <= 1
  /\ pb.audioContext = "none"
  /\ cap.live = 0

\* C18: when the resume() awaited by ensureAudioContextReady rejects, the
\* caller gets an error (the returned promise rejects).
C18_ResumeFailurePropagates ==
  mgr.resume = "rejected" => mgr.ensure = "threw"

\* C19: a step in which a playback fails raises errorCount by exactly one,
\* and a step in which a playback starts successfully lowers it by one, not
\* below 0.
C19_CounterArithmetic ==
  [][/\ pb'.consecFail = pb.consecFail + 1 =>
          pb'.state.errorCount = pb.state.errorCount + 1
     /\ pb'.lastStarted # pb.lastStarted =>
          pb'.state.errorCount = Max(0, pb.state.errorCount - 1)]_vars

\* C20: a call of enqueueAudio with null or zero-length data leaves the queue
\* contents, queueLength, the playing item, errorCount and isRecovering as
\* they were before the call.
C20_InvalidEnqueueIsolated ==
  [][pb'.rejected # pb.rejected =>
       /\ pb'.audioQueue = pb.audioQueue
       /\ pb'.state.queueLength = pb.state.queueLength
       /\ pb'.state.currentItem = pb.state.currentItem
       /\ pb'.state.isPlaying = pb.state.isPlaying
       /\ pb'.state.errorCount = pb.state.errorCount
       /\ pb'.state.isRecovering = pb.state.isRecovering]_vars

\* What the specification calls a valid tuning value: a threshold within
\* 0..1 (0..1000 thousandths), a timeout that is not negative.
ValidTuning(newConfig) ==
  IF newConfig[1] = "volumeThreshold"
  THEN newConfig[2] >= 0 /\ newConfig[2] <= 1000
  ELSE newConfig[2] >= 0

\* C21: an updateConfig call with an invalid tuning value (a threshold
\* outside 0..1, a negative timeout) leaves the configuration of the
\* detector as it was.
C21_InvalidConfigRejected ==
  [][/\ (vad'.updates # vad.updates /\ ~ValidTuning(vad'.lastUpdate))
          => vad'.config = vad.config
     /\ (worklet'.updates # worklet.updates /\ ~ValidTuning(worklet'.lastUpdate))
          => worklet'.config = worklet.config]_vars

\* C22: a running detector works with the configuration as updateConfig
\* left it: the worklet processor classifies with the configured threshold
\* and measures with the configured timeouts, and a deadline the interval
\* detector arms lies the configured timeout ahead.
C22_HotReload ==
  [][/\ (worklet.isListening /\ worklet'.isListening) =>
          /\ worklet'.processor.volumeThreshold = worklet'.config.volumeThreshold
          /\ worklet'.processor.voiceTimeout = worklet'.config.voiceTimeout
          /\ worklet'.processor.silenceTimeout = worklet'.config.silenceTimeout
     /\ (vad.voiceTimer = 0 /\ vad'.voiceTimer # 0) =>
          vad'.voiceTimer = vadNow + vad'.config.voiceTimeout
     /\ (vad.silenceTimer = 0 /\ vad'.silenceTimer # 0) =>
          vad'.silenceTimer = vadNow + vad'.config.silenceTimeout]_vars

\* The buffers pushed for the last chunk, end to end.
RECURSIVE Concat(_)
Concat(buffers) ==
  IF buffers = <<>> THEN <<>> ELSE Head(buffers) \o Concat(Tail(buffers))

\* The PCM16 samples of a chunk: byte pairs, low byte first, two's complement.
SamplesOf(chunk) ==
  [j \in 1..(Len(chunk) \div 2) |->
     LET u == chunk[2 * j - 1] + 256 * chunk[2 * j]
     IN IF u < 32768 THEN u ELSE u - 65536]

\* C23: addPCM16 on a chunk of n samples pushes ceil(n / B) buffers, B =
\* 7680: floor(n / B) buffers of B samples, then one of n mod B samples if
\* n mod B > 0; end to end they are the samples of the chunk in order.
\* 8000 samples give two buffers, of 7680 and 320 samples.
C23_ChunkSlicing ==
  LET n == Len(streamer.chunk) \div 2
      full == n \div bufferSize
      rest == n % bufferSize
      pushed == streamer.pushed
  IN /\ Len(pushed) = full + (IF rest > 0 THEN 1 ELSE 0)
     /\ \A k \in 1..full : Len(pushed[k]) = bufferSize
     /\ rest > 0 => Len(pushed[full + 1]) = rest
     /\ Concat(pushed) = SamplesOf(streamer.chunk)
     /\ [k \in 1..Len(pushed) |-> Len(pushed[k])] = SliceBlocks(n)
     /\ n = 8000 => Len(pushed) = 2 /\ Len(pushed[2]) < bufferSize

\* C23 witness: a chunk of 8000 samples was sliced into two buffers, and
\* its first and last samples are where they belong.
C23_Witness ==
  /\ Len(streamer.chunk) = 16000
  /\ Len(streamer.pushed) = 2
  /\ streamer.pushed[1][1] = SamplesOf(streamer.chunk)[1]
  /\ streamer.pushed[2][320] = SamplesOf(streamer.chunk)[8000]

RECURSIVE SumLengths(_)
SumLengths(blocks) ==
  IF blocks = <<>> THEN 0 ELSE Head(blocks) + SumLengths(Tail(blocks))

\* The samples a streamer holds queued or has handed to source nodes.
SamplesTaken(s) ==
  SumLengths([i \in 1..Len(s.audioQueue) |-> s.audioQueue[i].length])
    + SumLengths([i \in 1..Len(s.sources) |-> s.sources[i].duration])

\* C24: addPCM16 on a chunk of odd byte length completes: onError is called
\* once, the chunk's whole samples are queued or scheduled, the streamer
\* is playing, and every addPCM16 after it takes its chunk in the same way.
C24_OddChunkNonFatal ==
  [][streamer'.chunks = streamer.chunks + 1 =>
       /\ streamer'.errors = streamer.errors + (streamer'.lastBytes % 2)
       /\ SamplesTaken(streamer') =
            SamplesTaken(streamer) + (streamer'.lastBytes \div 2)
       /\ streamer'.isPlaying /\ ~streamer'.isStreamComplete
       /\ Len(streamer'.audioQueue) > 0 =>
            streamer'.timeouts # {} \/ streamer'.checkInterval]_vars

\* C24 witness: an odd chunk was reported, and the blocks of a chunk added
\* after it have been handed to source nodes.
C24_Witness ==
  /\ streamer.errors = 1 /\ streamer.chunks = 2
  /\ streamer.lastBytes = 16000
  /\ Len(streamer.audioQueue) = 0
  /\ SamplesTaken(streamer) = 720 + 8000

\* C25: the chunks handed to addPCM16 are in the order in which their
\* frames arrived, whether the frames come as ArrayBuffer or as Blob.
C25_ArrivalOrder ==
  \A j, k \in 1..Len(ws.forwardSeq) :
     j < k => ws.forwardSeq[j] < ws.forwardSeq[k]

\* C26: while complete() has not been called and the queue is empty, the
\* scheduler polls and onComplete is not invoked (short of stop()); and
\* every block queued is eventually scheduled, or dropped by stop().
C26_UnderrunPolling ==
  /\ [](/\ (streamer.isPlaying /\ ~streamer.isStreamComplete
              /\ Len(streamer.audioQueue) = 0) => streamer.checkInterval
        /\ streamer.stops = 0 =>
             \A i \in 1..Len(completeLog) : completeLog[i].completeCalled)
  /\ (Len(streamer.audioQueue) > 0) ~> (Len(streamer.audioQueue) = 0)

\* C26 witness: the only block had finished playing with complete() not
\* called, the scheduler was polling, and a chunk added then was scheduled.
C26_Witness ==
  /\ streamer.chunks = 2 /\ streamer.stops = 0 /\ completedStreams = {}
  /\ Len(streamer.sources) = 2 /\ Len(streamer.audioQueue) = 0
  /\ streamer.sources[2].at > streamer.sources[1].start + streamer.sources[1].duration
  /\ streamer.checkInterval /\ completeLog = <<>>

\* C27: when the decoding of an item fails with a decode error, the item is
\* not put back in the queue, its retry count is not used, and a
\* processQueue is scheduled for the items that remain.
C27_DecodeErrorSkips ==
  [][\A item \in pb.decoding :
       (/\ item \notin pb'.decoding
        /\ pb'.state.errorCount = pb.state.errorCount + 1
        /\ pb'.state.lastError = "DECODE_ERROR")
       => /\ pb'.audioQueue = pb.audioQueue
          /\ \A k \in 1..Len(pb'.audioQueue) : pb'.audioQueue[k].id # item.id
          /\ ~pb'.state.isPlaying /\ pb'.state.currentItem = 0
          /\ pb'.timers = pb.timers + 1]_vars

\* C27 witness: the first of two items failed to decode and is gone, and
\* the second one was started after it.
C27_Witness ==
  /\ pb.enqueued = 2 /\ pb.calls = 0
  /\ pb.state.lastError = "DECODE_ERROR"
  /\ pb.lastStarted = 2
  /\ pb.audioQueue = <<>> /\ pb.decoding = {}

\* C28: every chunk the capture worklet posts has 2048 samples; the chunks
\* posted, followed by what is in the buffer, are the samples captured, in
\* order, each once; and a chunk is given to websocket.send only while
\* isRecording is true and the socket is open, each chunk at most once and
\* in the order posted.
C28_CaptureFrames ==
  /\ [](/\ \A k \in 1..Len(cap.processor.posted) :
             Len(cap.processor.posted[k]) = FrameSamples
        /\ Len(cap.processor.buffer) < FrameSamples
        /\ Concat(cap.processor.posted) \o cap.processor.buffer =
             [i \in 1..cap.processor.captured |-> ToInt16(SampleAt(i))]
        /\ \A j \in 1..Len(cap.sent) :
             /\ cap.sent[j] <= cap.processor.handled
             /\ \A i \in 1..(j - 1) : cap.sent[i] < cap.sent[j])
  /\ [][cap'.sent # cap.sent /\ cap'.sent # <<>>
          => cap.isRecording /\ cap.websocket = "open"]_vars

\* C28 witness: two chunks were posted and sent while recording, and more
\* samples are in the buffer.
C28_Witness ==
  /\ cap.isRecording /\ cap.websocket = "open"
  /\ Len(cap.processor.posted) = 2 /\ cap.sent = <<1, 2>>
  /\ Len(cap.processor.buffer) > 0

\* C29: setVolume(v) sets the gain to min(1, max(0, v)), so the gain is
\* always within [0, 1], and it changes nothing else of the streamer: the
\* queue, the scheduled time, the playing and stream-complete flags, the
\* timers and the scheduled sources are as before, and onComplete is not
\* called.
C29_SetVolumeClamps ==
  /\ [](streamer.gain >= 0 /\ streamer.gain <= 100)
  /\ [][\A volume \in StreamerVolumes : SetVolume(volume) =>
          /\ streamer'.gain = (IF volume < 0 THEN 0
                               ELSE IF volume > 100 THEN 100 ELSE volume)
          /\ [streamer' EXCEPT !.gain = 0, !.lastVolume = 0] =
             [streamer EXCEPT !.gain = 0, !.lastVolume = 0]
          /\ completeLog' = completeLog]_vars

\* C29 witness: setVolume(2.5) was called on a playing streamer with blocks
\* queued, and the gain is 1.
C29_Witness ==
  /\ streamer.lastVolume = 250 /\ streamer.gain = 100
  /\ streamer.isPlaying /\ Len(streamer.audioQueue) > 0

\* C30: the deduplicator drops a chunk only if a byte-identical chunk was
\* submitted before it: every chunk given to processPCMChunk while a streamer
\* exists has been forwarded to addPCM16, itself or a byte-identical chunk
\* submitted earlier, so two chunks that differ in any byte are both
\* forwarded.
C30_OnlyExactDuplicates ==
  \A i \in 1..Len(ws.submitLog) :
    \E j \in 1..Len(ws.forwardLog) : ws.forwardLog[j] = ws.submitLog[i]

\* C31: getAudioContext is idempotent.  Two calls return different instances
\* only if the one returned first is closed; at most one instance is not
\* closed; and an instance is created only when sharedAudioContext is null or
\* closed.
C31_GetAudioContextIdempotent ==
  /\ [](/\ \A i, j \in 1..Len(mgr.returned) :
             i < j /\ mgr.returned[i] # mgr.returned[j]
               => mgr.contexts[mgr.returned[i]] = "closed"
        /\ Cardinality({i \in 1..Len(mgr.contexts) : mgr.contexts[i] # "closed"}) <= 1)
  /\ [][Len(mgr'.contexts) > Len(mgr.contexts)
          => \/ mgr.sharedAudioContext = 0
             \/ mgr.contexts[mgr.sharedAudioContext] = "closed"]_vars

\* C31 witness: two calls overlapped awaiting resume() and a third came when
\* the context ran, all three got instance 1; after destroyAudioContext a
\* fourth call got a new instance.
C31_Witness ==
  /\ mgr.returned = <<1, 1, 1, 2>>
  /\ mgr.contexts[1] = "closed" /\ mgr.contexts[2] = "running"

\* C32: blocks scheduled by one AudioStreamer never overlap in time: without
\* stop(), each block starts at or after the start time plus the duration of
\* the block scheduled before it.
C32_BlocksNeverOverlap ==
  \A j \in 2..Len(streamer.sources) :
    streamer.sources[j].start >=
      streamer.sources[j - 1].start + streamer.sources[j - 1].duration

\* C33: the onVoiceStart and onVoiceEnd calls of the interval detector
\* alternate, beginning with onVoiceStart, and isSpeaking is true exactly
\* between an onVoiceStart and the onVoiceEnd that follows it.
C33_EventsAlternate ==
  /\ \A i \in 1..Len(vad.events) :
       vad.events[i] = (IF i % 2 = 1 THEN "onVoiceStart" ELSE "onVoiceEnd")
  /\ vad.isSpeaking <=> (Len(vad.events) % 2 = 1)

\* C34: at the stream handler at most one AudioStreamer is live: every
\* streamer created and not stopped is the one installed in audioStreamer.
C34_OneLiveStreamer ==
  /\ Cardinality(ws.live) <= 1
  /\ \A k \in ws.live : ws.audioStreamer = k

\* C35: a binary chunk that arrives after the audio_chunk message announcing
\* its stream (the streamer's initialization pending, or the metadata set) is
\* given to processPCMChunk and is forwarded to addPCM16 or is a duplicate of
\* a chunk forwarded before; and every fingerprint in the dedup cache is the
\* fingerprint of a forwarded chunk.
C35_AnnouncedChunkNotDropped ==
  /\ [][ws'.frames = ws.frames + 1
          /\ (Len(ws.pendingInits) > 0 \/ ws.currentStreamMetadata # 0)
        => /\ Len(ws'.submitLog) = Len(ws.submitLog) + 1
           /\ \/ Len(ws'.forwardLog) = Len(ws.forwardLog) + 1
              \/ \E j \in 1..Len(ws.forwardLog) :
                   ws.forwardLog[j] = ws'.submitLog[Len(ws'.submitLog)]]_vars
  /\ [](\A i \in 1..Len(ws.inserted) :
          \E j \in 1..Len(ws.forwardLog) :
            Fingerprint(ws.forwardLog[j]) = ws.inserted[i])

\* C36: while the conversation microphone is muted, capture is not
\* recording.
C36_MutedNotRecording == conv.isMuted => ~cap.isRecording

\* C37: while playback is muted, the gain of the AudioStreamer installed at
\* the stream handler is 0.
C37_MutedGainZero ==
  pb.state.isMuted /\ ws.audioStreamer # 0 => ws.gain = 0


\* C38: the reported queueLength equals the number of items waiting in the
\* playback queue after every operation (enqueueAudio, the dequeue of
\* processQueue, removeFromQueue, clearQueue, a retry re-queue, cleanup).
C38_QueueLengthMatches == pb.state.queueLength = Len(pb.audioQueue)

\* An item of the middle of the queue was removed and an item was re-queued
\* for a retry: two items wait, the first on its second attempt.
C38_Witness ==
  /\ Len(pb.audioQueue) = 2
  /\ pb.state.queueLength = 2
  /\ pb.audioQueue[1].retryCount > 0
  /\ pb.enqueued = 3
  /\ pb.calls > 0
  /\ ~pb.cleared


\* C39: once complete() has been called and every queued block has been
\* scheduled, the scheduler is idle: getIsPlaying() is false and no poll
\* interval is active, whether complete() found blocks queued or the queue
\* already empty.
C39_IdleAfterComplete ==
  (/\ streamer.isStreamComplete
   /\ ~streamer.stopped
   /\ Len(streamer.audioQueue) = 0)
    => ~streamer.isPlaying /\ ~streamer.checkInterval


\* C40: the capture worklet's conversion maps every sample in [-1.0, 1.0] to
\* a 16-bit value in [-32768, 32767] of the sample's sign (a positive sample
\* never becomes negative, a negative one never positive), full scale +1.0
\* included: sample * 32768 stored into the Int16 buffer does not wrap.
C40_ConversionKeepsSign ==
  LET out == Concat(cap.processor.posted) \o cap.processor.buffer IN
  \A n \in 1..Len(out) :
    /\ out[n] \in -32768..32767
    /\ SampleAt(n) > 0 => out[n] >= 0
    /\ SampleAt(n) < 0 => out[n] <= 0

====
